---- MODULE Spec2Model ----
(***************************************************************************)
(* Oracle Challenge: the prediction lifecycle and scoring engine.          *)
(*                                                                         *)
(* The record store (db/sqlite.ts), the scoring calculator                 *)
(* (game/scorer.ts), the lifecycle coordinator (game/resolver.ts) and the  *)
(* ingestion loop (index.ts, checkNewPredictions) as one state machine.    *)
(*                                                                         *)
(* Texts are sequences of one-character strings, so that toLowerCase and   *)
(* String.includes are computed, not assumed.  Money is counted in         *)
(* hundredths of an ORT, multipliers in tenths.  A nullable column is a    *)
(* set: {} is NULL, {v} is the value v.  No code reads the value of a       *)
(* resolved_at column; the model keeps that CURRENT_TIMESTAMP was stored,   *)
(* not which instant it was.                                               *)
(***************************************************************************)
EXTENDS Integers, Sequences, FiniteSets, TLC

\* ------------------------------------------------------------------ bounds
MaxTopics == 1
MaxPredictions == 2
MaxRuns == 1
MaxStreakIn == 20
MaxCalls == 2
MaxStreak0 == 1
ConfLo == 0 - 2
ConfHi == 13

\* ------------------------------------------------------- program constants
BaseReward == 100
MaxStreakBonus == 2

VARIABLES
  agents,       \* table agents: moltbook_name -> row
  predictions,  \* table predictions, in insertion order; the id is the index
  topics,       \* table topics, in insertion order; the id is the index
  fetching,     \* posts for which an ingestion run awaits moltbook.getComments
  batch,        \* per topic: the resolveTopic call suspended in its loop
  calls,        \* the resolvePrediction calls suspended on the ledger, oldest first
  last,         \* how the last call ended: "ok", or the message of the Error thrown (history)
  paid,         \* per agent: sum of the rewards returned for correct settlements (history)
  sc_in,        \* a pure function called alone: the arguments
  sc_out        \* a pure function called alone: the result

vars == <<agents, predictions, topics, fetching, batch, calls, last, paid, sc_in, sc_out>>

\* -------------------------------------------------------------------- texts
Upper == <<"A","B","C","D","E","F","G","H","I","J","K","L","M",
           "N","O","P","Q","R","S","T","U","V","W","X","Y","Z">>
Lower == <<"a","b","c","d","e","f","g","h","i","j","k","l","m",
           "n","o","p","q","r","s","t","u","v","w","x","y","z">>

LowerChar(c) ==
  IF \E i \in DOMAIN Upper : Upper[i] = c
  THEN Lower[CHOOSE i \in DOMAIN Upper : Upper[i] = c]
  ELSE c

toLowerCase(s) == [i \in DOMAIN s |-> LowerChar(s[i])]

includes(s, t) ==
  \E i \in 0..(Len(s) - Len(t)) : SubSeq(s, i + 1, i + Len(t)) = t

Min(a, b) == IF a <= b THEN a ELSE b
Max(a, b) == IF a >= b THEN a ELSE b

\* ------------------------------------------------------- scoring calculator
\* Math.round(n / d) for d > 0: the nearest integer, a half rounding up.
MathRound(n, d) == (2 * n + d) \div (2 * d)

\* A bug that forgets the cap on the streak bonus.
calculateRewardNoCap(confidence, currentStreak) ==
  LET validConfidence == Max(1, Min(10, confidence))
      newStreak == currentStreak + 1
  IN  [ baseReward |-> BaseReward,
        confidenceMultiplier |-> 2 * validConfidence,
        streakBonus |-> 10 + newStreak,
        totalReward |-> MathRound(BaseReward * (2 * validConfidence) * (10 + newStreak) * 100, 100),
        newStreak |-> newStreak ]

\* A bug that loses the streak bonus once it passes the cap.
calculateRewardBonusLost(confidence, currentStreak) ==
  LET validConfidence == Max(1, Min(10, confidence))
      newStreak == currentStreak + 1
      streakBonus == IF 10 + newStreak > MaxStreakBonus * 10 THEN 10 ELSE 10 + newStreak
  IN  [ baseReward |-> BaseReward,
        confidenceMultiplier |-> 2 * validConfidence,
        streakBonus |-> streakBonus,
        totalReward |-> MathRound(BaseReward * (2 * validConfidence) * streakBonus * 100, 100),
        newStreak |-> newStreak ]

\* A bug that uses the confidence as it comes, without clamping it.
calculateRewardNoClamp(confidence, currentStreak) ==
  LET newStreak == currentStreak + 1
      streakBonus == Min(MaxStreakBonus * 10, 10 + newStreak)
  IN  [ baseReward |-> BaseReward,
        confidenceMultiplier |-> 2 * confidence,
        streakBonus |-> streakBonus,
        totalReward |-> MathRound(BaseReward * (2 * confidence) * streakBonus * 100, 100),
        newStreak |-> newStreak ]

\* calculateReward(confidence, currentStreak).  confidenceMultiplier and
\* streakBonus are in tenths (validConfidence / 5 = 2 * validConfidence / 10,
\* 1 + newStreak * 0.1 = (10 + newStreak) / 10), totalReward in hundredths:
\* baseReward * confidenceMultiplier * streakBonus is a number of hundredths,
\* which Math.round(totalReward * 100) / 100 rounds to a whole hundredth.
calculateReward(confidence, currentStreak) ==
  LET validConfidence == Max(1, Min(10, confidence))
      confidenceMultiplier == 2 * validConfidence
      newStreak == currentStreak + 1
      streakBonus == Min(MaxStreakBonus * 10, 10 + newStreak)
      totalReward == BaseReward * confidenceMultiplier * streakBonus
  IN  [ baseReward |-> BaseReward,
        confidenceMultiplier |-> confidenceMultiplier,
        streakBonus |-> streakBonus,
        totalReward |-> MathRound(totalReward * 100, 100),
        newStreak |-> newStreak ]

\* ---------------------------------------------------------------- the store
Names == {"alice", "bob"}

\* A row of agents as INSERT INTO agents (id, moltbook_name) leaves it.
NewAgent ==
  [ wallet_address |-> {}, total_predictions |-> 0, correct_predictions |-> 0,
    current_streak |-> 0, best_streak |-> 0, total_ort_earned |-> 0 ]

\* A bug that writes a fresh row for the agent at every call (INSERT OR
\* REPLACE).
getOrCreateAgentReplace(ag, moltbookName) ==
  [n \in DOMAIN ag \cup {moltbookName} |->
     IF n = moltbookName THEN NewAgent ELSE ag[n]]

\* getOrCreateAgent(moltbookName): the table after the call.  The uuid of an
\* agent stands in one-to-one relation with its unique name; the name is the key.
getOrCreateAgent(ag, moltbookName) ==
  IF moltbookName \in DOMAIN ag THEN ag
  ELSE [n \in DOMAIN ag \cup {moltbookName} |->
          IF n = moltbookName THEN NewAgent ELSE ag[n]]

\* createPrediction(data): the row inserted; status and resolved_at, tx_hash
\* and on_chain_id are not columns of the INSERT and take the schema defaults.
createPrediction(data) ==
  [ agent_id |-> data.agentId, topic_id |-> data.topicId,
    comment_id |-> data.commentId,
    prediction_text |-> data.predictionText,
    outcome_predicted |-> IF data.outcomePredicted = "" THEN {} ELSE {data.outcomePredicted},
    confidence |-> data.confidence,
    status |-> "pending", tx_hash |-> {}, on_chain_id |-> {}, resolved_at |-> {} ]

\* getPendingPredictions(): the ids of the pending rows, oldest first.
RECURSIVE PendingFrom(_, _)
PendingFrom(preds, i) ==
  IF i > Len(preds) THEN <<>>
  ELSE (IF preds[i].status = "pending" THEN <<i>> ELSE <<>>) \o PendingFrom(preds, i + 1)

getPendingPredictions(preds) == PendingFrom(preds, 1)

\* A bug that forgets to stamp resolved_at.
dbResolvePredictionRowNoStamp(row, correct, txHash) ==
  [row EXCEPT !.status = IF correct THEN "resolved_correct" ELSE "resolved_wrong",
              !.tx_hash = txHash]

\* db.resolvePrediction, the UPDATE of the prediction row.
dbResolvePredictionRow(row, correct, txHash) ==
  [row EXCEPT !.status = IF correct THEN "resolved_correct" ELSE "resolved_wrong",
              !.resolved_at = {"CURRENT_TIMESTAMP"},
              !.tx_hash = txHash]

\* A bug that leaves the streak alone after a wrong prediction.
dbResolvePredictionAgentKeepStreak(row, correct) ==
  IF correct
  THEN [row EXCEPT !.correct_predictions = @ + 1,
                   !.current_streak = @ + 1,
                   !.best_streak = Max(@, row.current_streak + 1)]
  ELSE row

\* A bug that writes a streak of 1 after a correct prediction, whatever the
\* streak was.
dbResolvePredictionAgentStreakOne(row, correct) ==
  IF correct
  THEN [row EXCEPT !.correct_predictions = @ + 1,
                   !.current_streak = 1,
                   !.best_streak = Max(@, 1)]
  ELSE [row EXCEPT !.current_streak = 0]

\* A bug that leaves best_streak as it was.
dbResolvePredictionAgentBestStale(row, correct) ==
  IF correct
  THEN [row EXCEPT !.correct_predictions = @ + 1,
                   !.current_streak = @ + 1]
  ELSE [row EXCEPT !.current_streak = 0]

\* db.resolvePrediction, the UPDATE of the owning agent's row.
dbResolvePredictionAgent(row, correct) ==
  IF correct
  THEN [row EXCEPT !.correct_predictions = @ + 1,
                   !.current_streak = @ + 1,
                   !.best_streak = Max(@, row.current_streak + 1)]
  ELSE [row EXCEPT !.current_streak = 0]

\* createTopic(data): the row inserted.
createTopic(postId) ==
  [ post_id |-> postId, resolved |-> FALSE, actual_outcome |-> {}, resolved_at |-> {} ]

\* db.resolveTopic(id, actualOutcome): the row after the UPDATE.
dbResolveTopic(row, actualOutcome) ==
  [row EXCEPT !.resolved = TRUE, !.actual_outcome = {actualOutcome},
              !.resolved_at = {"CURRENT_TIMESTAMP"}]

\* ------------------------------------------------------------ sample texts
\* The texts the model runs on.  A text is held in the tables as a string;
\* Chars gives its characters to the operators that look inside it.
Chars(s) ==
  CASE s = "Yes" -> <<"Y","e","s">>
    [] s = "No" -> <<"N","o">>
    [] s = "FAIL" -> <<"F","A","I","L">>
    [] s = "happen" -> <<"h","a","p","p","e","n">>
    [] s = "fail" -> <<"f","a","i","l">>
    [] s = "not happen" -> <<"n","o","t"," ","h","a","p","p","e","n">>
    [] s = "It will happen" -> <<"I","t"," ","w","i","l","l"," ","h","a","p","p","e","n">>
    [] s = "It will fail" -> <<"I","t"," ","w","i","l","l"," ","f","a","i","l">>
    [] s = "It will not happen" ->
         <<"I","t"," ","w","i","l","l"," ","n","o","t"," ","h","a","p","p","e","n">>
    [] s = "win" -> <<"w","i","n">>
    [] s = "SUCCEED" -> <<"S","U","C","C","E","E","D">>
    [] s = "It happened" -> <<"I","t"," ","h","a","p","p","e","n","e","d">>
    [] s = "TRUE" -> <<"T","R","U","E">>
    [] s = "Never" -> <<"N","e","v","e","r">>
    [] s = "BTC will moon" ->
         <<"B","T","C"," ","w","i","l","l"," ","m","o","o","n">>
    [] s = "BTC will moon by March 2026" ->
         <<"B","T","C"," ","w","i","l","l"," ","m","o","o","n"," ","b","y"," ","M","a","r","c","h"," ","2","0","2","6">>
    [] s = "BTC will moon within 30 days" ->
         <<"B","T","C"," ","w","i","l","l"," ","m","o","o","n"," ","w","i","t","h","i","n"," ","3","0"," ","d","a","y","s">>
    [] s = "BTC will moon within 2 weeks" ->
         <<"B","T","C"," ","w","i","l","l"," ","m","o","o","n"," ","w","i","t","h","i","n"," ","2"," ","w","e","e","k","s">>
    [] s = "BTC will moon within 30 days by March 2026" ->
         <<"B","T","C"," ","w","i","l","l"," ","m","o","o","n"," ","w","i","t","h","i","n"," ","3","0"," ","d","a","y","s"," ","b","y"," ","M","a","r","c","h"," ","2","0","2","6">>
    [] s = "BTC will moon by end of year" ->
         <<"B","T","C"," ","w","i","l","l"," ","m","o","o","n"," ","b","y"," ","e","n","d"," ","o","f"," ","y","e","a","r">>
    [] s = "BTC will moon by 13/45/2026" ->
         <<"B","T","C"," ","w","i","l","l"," ","m","o","o","n"," ","b","y"," ","1","3","/","4","5","/","2","0","2","6">>
    [] s = "moon" ->
         <<"m","o","o","n">>
    [] s = "moon within 30 days" ->
         <<"m","o","o","n"," ","w","i","t","h","i","n"," ","3","0"," ","d","a","y","s">>
    [] s = "moon within 2 weeks" ->
         <<"m","o","o","n"," ","w","i","t","h","i","n"," ","2"," ","w","e","e","k","s">>
    [] s = "CONFIDENCE: 8" ->
         <<"C","O","N","F","I","D","E","N","C","E",":"," ","8">>
    [] s = "CONFIDENCE: 0" ->
         <<"C","O","N","F","I","D","E","N","C","E",":"," ","0">>
    [] s = "confidence: 15" ->
         <<"c","o","n","f","i","d","e","n","c","e",":"," ","1","5">>
    [] s = "CONFIDENCE: about 8" ->
         <<"C","O","N","F","I","D","E","N","C","E",":"," ","a","b","o","u","t"," ","8">>
    [] s = "CATEGORY: crypto" ->
         <<"C","A","T","E","G","O","R","Y",":"," ","c","r","y","p","t","o">>
    [] s = "CATEGORY: AI" ->
         <<"C","A","T","E","G","O","R","Y",":"," ","A","I">>
    [] s = "CATEGORY: technology" ->
         <<"C","A","T","E","G","O","R","Y",":"," ","t","e","c","h","n","o","l","o","g","y">>
    [] s = "CATEGORY: sports" ->
         <<"C","A","T","E","G","O","R","Y",":"," ","s","p","o","r","t","s">>
    [] s = "PREDICTION: BTC will moon" ->
         <<"P","R","E","D","I","C","T","I","O","N",":"," ","B","T","C"," ","w","i","l","l"," ","m","o","o","n">>
    [] s = "prediction: BTC will moon by March 2026" ->
         <<"p","r","e","d","i","c","t","i","o","n",":"," ","B","T","C"," ","w","i","l","l"," ","m","o","o","n"," ","b","y"," ","M","a","r","c","h"," ","2","0","2","6">>
    [] s = "PREDICTION: BTC will moon within 30 days" ->
         <<"P","R","E","D","I","C","T","I","O","N",":"," ","B","T","C"," ","w","i","l","l"," ","m","o","o","n"," ","w","i","t","h","i","n"," ","3","0"," ","d","a","y","s">>
    [] s = "PREDICTION: BTC will moon within 2 weeks" ->
         <<"P","R","E","D","I","C","T","I","O","N",":"," ","B","T","C"," ","w","i","l","l"," ","m","o","o","n"," ","w","i","t","h","i","n"," ","2"," ","w","e","e","k","s">>
    [] s = "PREDICTION: BTC will moon within 30 days by March 2026" ->
         <<"P","R","E","D","I","C","T","I","O","N",":"," ","B","T","C"," ","w","i","l","l"," ","m","o","o","n"," ","w","i","t","h","i","n"," ","3","0"," ","d","a","y","s"," ","b","y"," ","M","a","r","c","h"," ","2","0","2","6">>
    [] s = "PREDICTION: BTC will moon by end of year" ->
         <<"P","R","E","D","I","C","T","I","O","N",":"," ","B","T","C"," ","w","i","l","l"," ","m","o","o","n"," ","b","y"," ","e","n","d"," ","o","f"," ","y","e","a","r">>
    [] s = "PREDICTION: BTC will moon by 13/45/2026" ->
         <<"P","R","E","D","I","C","T","I","O","N",":"," ","B","T","C"," ","w","i","l","l"," ","m","o","o","n"," ","b","y"," ","1","3","/","4","5","/","2","0","2","6">>
    [] s = "PREDICTION:" ->
         <<"P","R","E","D","I","C","T","I","O","N",":">>
    [] s = "by 13/45/2026" ->
         <<"b","y"," ","1","3","/","4","5","/","2","0","2","6">>
    [] s = "Will something happen?" ->
         <<"W","i","l","l"," ","s","o","m","e","t","h","i","n","g"," ","h","a","p","p","e","n","?">>
    [] s = "Will it go" ->
         <<"W","i","l","l"," ","i","t"," ","g","o">>
    [] s = "Too short" ->
         <<"T","o","o"," ","s","h","o","r","t">>
    [] s = "alice" -> <<"a","l","i","c","e">>
    [] s = "" -> <<>>

\* The texts Chars knows, and the text a sequence of characters spells.
Texts ==
  { "Yes", "No", "FAIL", "happen", "fail", "not happen", "It will happen",
    "It will fail", "It will not happen", "win", "SUCCEED", "It happened",
    "TRUE", "Never", "", "BTC will moon", "BTC will moon by March 2026",
    "BTC will moon within 30 days", "BTC will moon within 2 weeks",
    "BTC will moon within 30 days by March 2026",
    "BTC will moon by end of year", "BTC will moon by 13/45/2026", "moon",
    "moon within 30 days", "moon within 2 weeks", "CONFIDENCE: 8",
    "CONFIDENCE: 0", "confidence: 15", "CONFIDENCE: about 8",
    "CATEGORY: crypto", "CATEGORY: AI", "CATEGORY: technology",
    "CATEGORY: sports",
    "PREDICTION: BTC will moon",
    "prediction: BTC will moon by March 2026",
    "PREDICTION: BTC will moon within 30 days",
    "PREDICTION: BTC will moon within 2 weeks",
    "PREDICTION: BTC will moon within 30 days by March 2026",
    "PREDICTION: BTC will moon by end of year",
    "PREDICTION: BTC will moon by 13/45/2026",
    "PREDICTION:",
    "by 13/45/2026",
    "Will something happen?",
    "Will it go",
    "Too short" }

Text(chars) == CHOOSE s \in Texts : Chars(s) = chars

\* ------------------------------------------------------ prediction parser
\* Texts are sequences of characters here.  \s of the regular expressions is
\* a space, a tab or a line feed; \w a letter, a digit or an underscore; \d a
\* digit; `.` any character but a line feed.
WhiteSpace == {" ", "\t", "\n"}
Digits == <<"0","1","2","3","4","5","6","7","8","9">>

IsDigit(c) == \E i \in DOMAIN Digits : Digits[i] = c
DigitValue(c) == (CHOOSE i \in DOMAIN Digits : Digits[i] = c) - 1
IsWordChar(c) ==
  \/ IsDigit(c)
  \/ c = "_"
  \/ \E i \in DOMAIN Upper : Upper[i] = c \/ Lower[i] = c

\* The first index from i on whose character is not in the class, Len(s) + 1
\* when there is none: where a greedy run of the class that starts at i ends.
SkipSpace(s, i) ==
  CHOOSE k \in i..(Len(s) + 1) :
     /\ \A j \in i..(k - 1) : s[j] \in WhiteSpace
     /\ k = Len(s) + 1 \/ s[k] \notin WhiteSpace
SkipDigits(s, i) ==
  CHOOSE k \in i..(Len(s) + 1) :
     /\ \A j \in i..(k - 1) : IsDigit(s[j])
     /\ k = Len(s) + 1 \/ ~IsDigit(s[k])
SkipWord(s, i) ==
  CHOOSE k \in i..(Len(s) + 1) :
     /\ \A j \in i..(k - 1) : IsWordChar(s[j])
     /\ k = Len(s) + 1 \/ ~IsWordChar(s[k])

\* The last index of the line that starts at k.
LineEnd(s, k) ==
  CHOOSE e \in (k - 1)..Len(s) :
     /\ \A j \in k..e : s[j] # "\n"
     /\ e = Len(s) \/ s[e + 1] = "\n"

\* The lower-case word w stands at index i of s, in any case (flag i).
At(s, i, w) ==
  /\ i >= 1
  /\ i + Len(w) - 1 <= Len(s)
  /\ toLowerCase(SubSeq(s, i, i + Len(w) - 1)) = w

MinOf(S) == CHOOSE x \in S : \A y \in S : x <= y
MaxOf(S) == CHOOSE x \in S : \A y \in S : x >= y

\* String.prototype.trim
trim(s) ==
  LET keep == {i \in DOMAIN s : s[i] \notin WhiteSpace}
  IN  IF keep = {} THEN <<>> ELSE SubSeq(s, MinOf(keep), MaxOf(keep))

\* parseInt of a run of digits
RECURSIVE parseInt(_)
parseInt(ds) ==
  IF ds = <<>> THEN 0
  ELSE 10 * parseInt(SubSeq(ds, 1, Len(ds) - 1)) + DigitValue(ds[Len(ds)])

W_prediction == <<"p","r","e","d","i","c","t","i","o","n",":">>
W_confidence == <<"c","o","n","f","i","d","e","n","c","e",":">>
W_category == <<"c","a","t","e","g","o","r","y",":">>
W_by == <<"b","y">>
W_within == <<"w","i","t","h","i","n">>
W_endof == <<"e","n","d"," ","o","f">>
W_will == <<"w","i","l","l">>
Categories ==
  << <<"t","e","c","h">>, <<"c","r","y","p","t","o">>, <<"a","i">>,
     <<"w","o","r","l","d">>, <<"s","c","i","e","n","c","e">>, <<"o","t","h","e","r">> >>
MonthNames ==
  { <<"j","a","n">>, <<"f","e","b">>, <<"m","a","r">>, <<"a","p","r">>, <<"m","a","y">>,
    <<"j","u","n">>, <<"j","u","l">>, <<"a","u","g">>, <<"s","e","p">>, <<"o","c","t">>,
    <<"n","o","v">>, <<"d","e","c">> }

\* /PREDICTION:\s*(.+?)(?:\n|$)/i tried at index i: the capture, in a set, or
\* {} when the expression does not match there.  \s* runs over line feeds; the
\* capture is the rest of the line on which the run ends.  When only white
\* space follows the label the run backs off to the last character that is
\* not a line feed, and that character is the capture.
predictionCaptureAt(s, i) ==
  IF ~At(s, i, W_prediction) THEN {}
  ELSE LET j == i + Len(W_prediction)
           k == SkipSpace(s, j)
           blanks == {m \in j..Len(s) : s[m] # "\n"}
       IN  IF k <= Len(s) THEN {SubSeq(s, k, LineEnd(s, k))}
           ELSE IF blanks = {} THEN {}
           ELSE {<<s[MaxOf(blanks)]>>}

\* A bug that takes the first line as the prediction when there is no label.
predictionMatchFirstLine(content) ==
  LET hits == {i \in DOMAIN content : predictionCaptureAt(content, i) # {}}
  IN  IF hits # {} THEN predictionCaptureAt(content, MinOf(hits))
      ELSE IF \E i \in DOMAIN content : At(content, i, W_prediction) THEN {}
      ELSE {SubSeq(content, 1, LineEnd(content, 1))}

\* content.match(/PREDICTION:\s*(.+?)(?:\n|$)/i): the capture of the leftmost
\* match, in a set; {} is null.
predictionMatch(content) ==
  LET hits == {i \in DOMAIN content : predictionCaptureAt(content, i) # {}}
  IN  IF hits = {} THEN {} ELSE predictionCaptureAt(content, MinOf(hits))

\* content.match(/CONFIDENCE:\s*(\d+)/i): the digits captured, in a set.
confidenceMatch(content) ==
  LET hits == {i \in DOMAIN content :
                 /\ At(content, i, W_confidence)
                 /\ LET k == SkipSpace(content, i + Len(W_confidence))
                    IN  k <= Len(content) /\ IsDigit(content[k])}
      k == SkipSpace(content, MinOf(hits) + Len(W_confidence))
  IN  IF hits = {} THEN {} ELSE {SubSeq(content, k, SkipDigits(content, k) - 1)}

\* content.match(/CATEGORY:\s*(tech|crypto|ai|world|science|other)/i): the
\* alternative captured, in a set.  Nothing is required after the alternative.
categoryMatch(content) ==
  LET starts(i) == SkipSpace(content, i + Len(W_category))
      hits == {i \in DOMAIN content :
                 /\ At(content, i, W_category)
                 /\ \E c \in DOMAIN Categories : At(content, starts(i), Categories[c])}
      k == starts(MinOf(hits))
      c == MinOf({x \in DOMAIN Categories : At(content, k, Categories[x])})
  IN  IF hits = {} THEN {} ELSE {SubSeq(content, k, k + Len(Categories[c]) - 1)}

\* The four deadlinePatterns, each as the capture of its leftmost match in
\* text, in a set.
\* /by\s+(\w+\s+\d{4})/i
byMonthYear(text) ==
  LET cap(i) ==
        LET k == SkipSpace(text, i + 2)
            w == SkipWord(text, k)
            d == SkipSpace(text, w)
        IN  IF /\ At(text, i, W_by) /\ k > i + 2 /\ w > k /\ d > w
               /\ d + 3 <= Len(text)
               /\ \A j \in d..(d + 3) : IsDigit(text[j])
            THEN {SubSeq(text, k, d + 3)} ELSE {}
      hits == {i \in DOMAIN text : cap(i) # {}}
  IN  IF hits = {} THEN {} ELSE cap(MinOf(hits))

\* /by\s+(\d{1,2}\/\d{1,2}\/\d{4})/i
byNumericDate(text) ==
  LET cap(i) ==
        LET k == SkipSpace(text, i + 2)
            a == SkipDigits(text, k)
            b == SkipDigits(text, a + 1)
        IN  IF /\ At(text, i, W_by) /\ k > i + 2
               /\ a - k \in 1..2 /\ a <= Len(text) /\ text[a] = "/"
               /\ b - (a + 1) \in 1..2 /\ b <= Len(text) /\ text[b] = "/"
               /\ b + 4 <= Len(text)
               /\ \A j \in (b + 1)..(b + 4) : IsDigit(text[j])
            THEN {SubSeq(text, k, b + 4)} ELSE {}
      hits == {i \in DOMAIN text : cap(i) # {}}
  IN  IF hits = {} THEN {} ELSE cap(MinOf(hits))

\* /by\s+(end of \w+)/i
byEndOf(text) ==
  LET cap(i) ==
        LET k == SkipSpace(text, i + 2)
            w == k + Len(W_endof) + 1
        IN  IF /\ At(text, i, W_by) /\ k > i + 2
               /\ At(text, k, W_endof \o <<" ">>)
               /\ SkipWord(text, w) > w
            THEN {SubSeq(text, k, SkipWord(text, w) - 1)} ELSE {}
      hits == {i \in DOMAIN text : cap(i) # {}}
  IN  IF hits = {} THEN {} ELSE cap(MinOf(hits))

\* /within\s+(\d+\s+\w+)/i: the capture starts after the word within.
withinAmount(text) ==
  LET cap(i) ==
        LET k == SkipSpace(text, i + Len(W_within))
            a == SkipDigits(text, k)
            w == SkipSpace(text, a)
        IN  IF /\ At(text, i, W_within) /\ k > i + Len(W_within)
               /\ a > k /\ w > a /\ SkipWord(text, w) > w
            THEN {SubSeq(text, k, SkipWord(text, w) - 1)} ELSE {}
      hits == {i \in DOMAIN text : cap(i) # {}}
  IN  IF hits = {} THEN {} ELSE cap(MinOf(hits))

\* new Date(dateStr) for a text that is not in the ISO format, as the legacy
\* parser of V8 reads the texts the patterns capture: a month name and a year
\* give a date; day/month/year numbers give one when the first is a month and
\* the second a day of a month; a number followed by a word that is neither a
\* month nor a time zone gives Invalid Date.  A date is kept as the text it
\* was read from.  {} is Invalid Date.
NewDate(dateStr) ==
  LET w == SkipWord(dateStr, 1)
      a == SkipDigits(dateStr, 1)
      b == SkipDigits(dateStr, a + 1)
  IN  IF /\ w > 3 /\ ~IsDigit(dateStr[1])
         /\ toLowerCase(SubSeq(dateStr, 1, 3)) \in MonthNames
      THEN {[kind |-> "date", text |-> dateStr]}
      ELSE IF /\ a > 1 /\ a <= Len(dateStr) /\ dateStr[a] = "/"
              /\ b > a + 1 /\ b <= Len(dateStr) /\ dateStr[b] = "/"
      THEN IF /\ parseInt(SubSeq(dateStr, 1, a - 1)) \in 1..12
              /\ parseInt(SubSeq(dateStr, a + 1, b - 1)) \in 1..31
           THEN {[kind |-> "date", text |-> dateStr]}
           ELSE {}
      ELSE {}

\* parseDateString(dateStr): the Date returned, in a set; {} when it throws.
\* A relative date is kept as the days, months and years added to the current
\* time, an end-of date as the period whose end is taken.
parseDateString(dateStr) ==
  LET normalizedStr == trim(toLowerCase(dateStr))
      units == { <<"d","a","y">>, <<"w","e","e","k">>, <<"m","o","n","t","h">>,
                 <<"y","e","a","r">> }
      rel == {i \in DOMAIN normalizedStr :
                /\ IsDigit(normalizedStr[i])
                /\ LET a == SkipDigits(normalizedStr, i)
                       u == SkipSpace(normalizedStr, a)
                   IN  u > a /\ \E x \in units : At(normalizedStr, u, x)}
      i0 == MinOf(rel)
      a0 == SkipDigits(normalizedStr, i0)
      u0 == SkipSpace(normalizedStr, a0)
  IN  IF includes(normalizedStr, W_within) /\ rel # {}
      THEN LET amount == parseInt(SubSeq(normalizedStr, i0, a0 - 1))
                unit == CHOOSE x \in units : At(normalizedStr, u0, x)
           IN  {[kind |-> "now plus",
                 days |-> IF unit = <<"d","a","y">> THEN amount
                          ELSE IF unit = <<"w","e","e","k">> THEN amount * 7
                          ELSE 0,
                 months |-> IF unit = <<"m","o","n","t","h">> THEN amount ELSE 0,
                 years |-> IF unit = <<"y","e","a","r">> THEN amount ELSE 0]}
      ELSE IF includes(normalizedStr, W_endof)
      THEN {[kind |-> "end of",
             period |-> IF includes(normalizedStr, <<"y","e","a","r">>) THEN "year"
                        ELSE IF includes(normalizedStr, <<"m","o","n","t","h">>) THEN "month"
                        ELSE IF includes(normalizedStr, <<"q","u","a","r","t","e","r">>)
                        THEN "quarter"
                        ELSE "now"]}
      ELSE NewDate(dateStr)

\* The loop over deadlinePatterns: the first pattern that matches and whose
\* capture parseDateString accepts gives the deadline; {} is undefined.
RECURSIVE firstDeadline(_)
firstDeadline(captures) ==
  IF captures = <<>> THEN {}
  ELSE IF Head(captures) # {}
          /\ parseDateString(CHOOSE x \in Head(captures) : TRUE) # {}
       THEN parseDateString(CHOOSE x \in Head(captures) : TRUE)
       ELSE firstDeadline(Tail(captures))

extractDeadline(predictionText) ==
  firstDeadline(<< byMonthYear(predictionText), byNumericDate(predictionText),
                   byEndOf(predictionText), withinAmount(predictionText) >>)

\* predictionText.match(/will\s+(.+?)(?:\s+by|$)/i), trimmed, or the whole
\* text when there is no match.
extractOutcome(predictionText) ==
  LET hits == {i \in DOMAIN predictionText :
                 /\ At(predictionText, i, W_will)
                 /\ SkipSpace(predictionText, i + 4) > i + 4
                 /\ SkipSpace(predictionText, i + 4) <= Len(predictionText)}
      k == SkipSpace(predictionText, MinOf(hits) + 4)
      ends == {e \in k..Len(predictionText) :
                 \/ e = Len(predictionText)
                 \/ /\ predictionText[e + 1] \in WhiteSpace
                    /\ At(predictionText, SkipSpace(predictionText, e + 1), W_by)}
  IN  IF hits = {} THEN predictionText
      ELSE trim(SubSeq(predictionText, k, MinOf(ends)))

\* A bug that gives up the prediction when no deadline could be read.
parsePredictionDeadlineRequired(content) ==
  IF predictionMatch(content) = {} THEN {}
  ELSE
    LET predictionText == trim(CHOOSE x \in predictionMatch(content) : TRUE)
        confidence ==
          IF confidenceMatch(content) # {}
          THEN Min(10, Max(1, parseInt(CHOOSE x \in confidenceMatch(content) : TRUE)))
          ELSE 5
        category ==
          IF categoryMatch(content) # {}
          THEN toLowerCase(CHOOSE x \in categoryMatch(content) : TRUE)
          ELSE <<"o","t","h","e","r">>
    IN  IF extractDeadline(predictionText) = {} THEN {}
        ELSE {[ prediction |-> predictionText,
                outcome |-> extractOutcome(predictionText),
                deadline |-> extractDeadline(predictionText),
                confidence |-> confidence,
                category |-> category ]}

\* parsePrediction(comment): the ParsedPrediction, in a set; {} is null.
parsePrediction(content) ==
  IF predictionMatch(content) = {} THEN {}
  ELSE
    LET predictionText == trim(CHOOSE x \in predictionMatch(content) : TRUE)
        confidence ==
          IF confidenceMatch(content) # {}
          THEN Min(10, Max(1, parseInt(CHOOSE x \in confidenceMatch(content) : TRUE)))
          ELSE 5
        category ==
          IF categoryMatch(content) # {}
          THEN toLowerCase(CHOOSE x \in categoryMatch(content) : TRUE)
          ELSE <<"o","t","h","e","r">>
    IN  {[ prediction |-> predictionText,
           outcome |-> extractOutcome(predictionText),
           deadline |-> extractDeadline(predictionText),
           confidence |-> confidence,
           category |-> category ]}

\* The comments the platform may return.
RawComments ==
  << [ post |-> 1, author |-> "alice",
       content |->
         << "P","R","E","D","I","C","T","I","O","N",":"," ","I","t"," ",
            "w","i","l","l"," ","h","a","p","p","e","n","\n","C","O","N",
            "F","I","D","E","N","C","E",":"," ","8" >> ],
     [ post |-> 1, author |-> "alice",
       content |->
         << "P","r","e","d","i","c","t","i","o","n",":"," ","I","t"," ",
            "w","i","l","l"," ","f","a","i","l" >> ],
     [ post |-> 1, author |-> "bob",
       content |->
         << "I","t"," ","w","i","l","l"," ","h","a","p","p","e","n",",",
            " ","C","O","N","F","I","D","E","N","C","E",":"," ","9" >> ],
     [ post |-> 2, author |-> "bob",
       content |->
         << "P","R","E","D","I","C","T","I","O","N",":"," ","I","t"," ",
            "w","i","l","l"," ","n","o","t"," ","h","a","p","p","e","n",
            "\n","C","O","N","F","I","D","E","N","C","E",":"," ","1","0",
            "\n","C","A","T","E","G","O","R","Y",":"," ","t","e","c","h" >> ] >>

\* The comments as parsePrediction reads them: parsed is {} where it returns
\* null.
Comments ==
  << [ post |-> 1, author |-> "alice",
       parsed |-> {[prediction |-> "It will happen", outcome |-> "happen", confidence |-> 8]} ],
     [ post |-> 1, author |-> "alice",
       parsed |-> {[prediction |-> "It will fail", outcome |-> "fail", confidence |-> 5]} ],
     [ post |-> 1, author |-> "bob", parsed |-> {} ],
     [ post |-> 2, author |-> "bob",
       parsed |-> {[prediction |-> "It will not happen", outcome |-> "not happen",
                    confidence |-> 10]} ] >>

\* Comments holds, comment by comment, what parsePrediction returns for the
\* content of RawComments.
CommentsParsed ==
  /\ DOMAIN Comments = DOMAIN RawComments
  /\ \A c \in DOMAIN RawComments :
        /\ Comments[c].post = RawComments[c].post
        /\ Comments[c].author = RawComments[c].author
        /\ Comments[c].parsed =
             { [ prediction |-> Text(x.prediction), outcome |-> Text(x.outcome),
                 confidence |-> x.confidence ] :
               x \in parsePrediction(RawComments[c].content) }

\* The arguments settlement calls are made with.
ActualOutcomes == {"Yes", "No"}
MatchingOutcomes == {<<>>, <<"FAIL">>, <<"FAIL", "happen">>}

\* ---------------------------------------------------------- outcome matcher
positiveTerms ==
  { <<"y","e","s">>, <<"w","i","l","l">>, <<"t","r","u","e">>,
    <<"h","a","p","p","e","n">>, <<"s","u","c","c","e","e","d">> }
negativeTerms ==
  { <<"n","o">>, <<"w","o","n","'","t">>, <<"f","a","l","s","e">>,
    <<"f","a","i","l">>, <<"n","o","t">> }

\* A bug that ignores matchingOutcomes and always applies the heuristic.
isCorrectHeuristicOnly(prediction, actualOutcome, matchingOutcomes) ==
  LET text == IF prediction.outcome_predicted # {}
              THEN CHOOSE x \in prediction.outcome_predicted : TRUE
              ELSE prediction.prediction_text
      predictionLower == toLowerCase(Chars(text))
      outcomeLower == toLowerCase(Chars(actualOutcome))
      predictionPositive == \E t \in positiveTerms : includes(predictionLower, t)
      predictionNegative == \E t \in negativeTerms : includes(predictionLower, t)
      outcomePositive == \/ includes(outcomeLower, <<"y","e","s">>)
                         \/ includes(outcomeLower, <<"h","a","p","p","e","n","e","d">>)
                         \/ includes(outcomeLower, <<"t","r","u","e">>)
  IN  IF predictionPositive /\ ~predictionNegative THEN outcomePositive
      ELSE IF predictionNegative /\ ~predictionPositive THEN ~outcomePositive
      ELSE FALSE

\* A bug that judges a negative prediction as a positive one.
isCorrectNegativeAsPositive(prediction, actualOutcome, matchingOutcomes) ==
  LET text == IF prediction.outcome_predicted # {}
              THEN CHOOSE x \in prediction.outcome_predicted : TRUE
              ELSE prediction.prediction_text
      predictionLower == toLowerCase(Chars(text))
      outcomeLower == toLowerCase(Chars(actualOutcome))
      predictionPositive == \E t \in positiveTerms : includes(predictionLower, t)
      predictionNegative == \E t \in negativeTerms : includes(predictionLower, t)
      outcomePositive == \/ includes(outcomeLower, <<"y","e","s">>)
                         \/ includes(outcomeLower, <<"h","a","p","p","e","n","e","d">>)
                         \/ includes(outcomeLower, <<"t","r","u","e">>)
  IN  IF Len(matchingOutcomes) > 0
      THEN \E k \in DOMAIN matchingOutcomes :
              includes(predictionLower, toLowerCase(Chars(matchingOutcomes[k])))
      ELSE IF predictionPositive /\ ~predictionNegative THEN outcomePositive
      ELSE IF predictionNegative /\ ~predictionPositive THEN outcomePositive
      ELSE FALSE

\* A bug that judges an ambiguous prediction as a positive one.
isCorrectAmbiguousAsPositive(prediction, actualOutcome, matchingOutcomes) ==
  LET text == IF prediction.outcome_predicted # {}
              THEN CHOOSE x \in prediction.outcome_predicted : TRUE
              ELSE prediction.prediction_text
      predictionLower == toLowerCase(Chars(text))
      outcomeLower == toLowerCase(Chars(actualOutcome))
      predictionPositive == \E t \in positiveTerms : includes(predictionLower, t)
      predictionNegative == \E t \in negativeTerms : includes(predictionLower, t)
      outcomePositive == \/ includes(outcomeLower, <<"y","e","s">>)
                         \/ includes(outcomeLower, <<"h","a","p","p","e","n","e","d">>)
                         \/ includes(outcomeLower, <<"t","r","u","e">>)
  IN  IF Len(matchingOutcomes) > 0
      THEN \E k \in DOMAIN matchingOutcomes :
              includes(predictionLower, toLowerCase(Chars(matchingOutcomes[k])))
      ELSE IF predictionPositive /\ ~predictionNegative THEN outcomePositive
      ELSE IF predictionNegative /\ ~predictionPositive THEN ~outcomePositive
      ELSE outcomePositive

\* The body of resolveTopic's loop that decides `correct` for one prediction.
isCorrect(prediction, actualOutcome, matchingOutcomes) ==
  LET text == IF prediction.outcome_predicted # {}
              THEN CHOOSE x \in prediction.outcome_predicted : TRUE
              ELSE prediction.prediction_text
      predictionLower == toLowerCase(Chars(text))
      outcomeLower == toLowerCase(Chars(actualOutcome))
      predictionPositive == \E t \in positiveTerms : includes(predictionLower, t)
      predictionNegative == \E t \in negativeTerms : includes(predictionLower, t)
      outcomePositive == \/ includes(outcomeLower, <<"y","e","s">>)
                         \/ includes(outcomeLower, <<"h","a","p","p","e","n","e","d">>)
                         \/ includes(outcomeLower, <<"t","r","u","e">>)
  IN  IF Len(matchingOutcomes) > 0
      THEN \E k \in DOMAIN matchingOutcomes :
              includes(predictionLower, toLowerCase(Chars(matchingOutcomes[k])))
      ELSE IF predictionPositive /\ ~predictionNegative THEN outcomePositive
      ELSE IF predictionNegative /\ ~predictionPositive THEN ~outcomePositive
      ELSE FALSE

\* ---------------------------------------------------- lifecycle coordinator
NoResult ==
  [ predictionId |-> 0, agentName |-> "", correct |-> FALSE, reward |-> 0,
    newStreak |-> 0, txHash |-> {} ]

\* A bug that drops the check of the status.
alreadyResolvedNever(prediction) == FALSE

\* resolvePrediction's test `prediction.status !== 'pending'`.
alreadyResolved(prediction) == prediction.status # "pending"

\* resolvePrediction(predictionId, correct) of the coordinator, run on the
\* tables ag and preds: how it ends (kind: "ok" or the Error), the tables it leaves and
\* the ResolutionResult it returns.  on_chain_id is NULL in every row the
\* program inserts, so neither branch reaches the ledger call and the function
\* runs to its end without suspending; txHash stays undefined.
resolvePrediction(ag, preds, predictionId, correct) ==
  IF predictionId \notin DOMAIN preds
  THEN [ kind |-> "Prediction not found", agents |-> ag, predictions |-> preds, result |-> NoResult ]
  ELSE IF alreadyResolved(preds[predictionId])
  THEN [ kind |-> "Prediction already resolved", agents |-> ag, predictions |-> preds, result |-> NoResult ]
  ELSE
    LET prediction == preds[predictionId]
        agent == ag[prediction.agent_id]
        scoring == calculateReward(prediction.confidence, agent.current_streak)
        reward == IF correct THEN scoring.totalReward ELSE 0
        newStreak == IF correct THEN scoring.newStreak ELSE 0
        txHash == {}
    IN  [ kind |-> "ok",
          predictions |-> [preds EXCEPT ![predictionId] =
                              dbResolvePredictionRow(@, correct, txHash)],
          agents |-> [ag EXCEPT ![prediction.agent_id] =
                              dbResolvePredictionAgent(@, correct)],
          result |-> [ predictionId |-> predictionId,
                       agentName |-> prediction.agent_id,
                       correct |-> correct, reward |-> reward,
                       newStreak |-> newStreak, txHash |-> txHash ] ]


\* The rewards returned so far, with the result r of one more settlement.
Paid(r) ==
  IF r.kind = "ok" /\ r.result.correct
  THEN [paid EXCEPT ![r.result.agentName] = @ + r.result.reward]
  ELSE paid

IdleBatch ==
  [ active |-> FALSE, predictions |-> <<>>, queue |-> <<>>, results |-> <<>>,
    actualOutcome |-> "", matchingOutcomes |-> <<>> ]

\* --------------------------------------------------------------------- Init
Init ==
  /\ CommentsParsed
  /\ agents = [n \in {} |-> NewAgent]
  /\ predictions = <<>>
  /\ topics = <<>>
  /\ fetching = {}
  /\ batch = [t \in 1..MaxTopics |-> IdleBatch]
  /\ calls = <<>>
  /\ last = "ok"
  /\ paid = [n \in Names |-> 0]
  /\ sc_in = <<>>
  /\ sc_out = <<>>

\* ------------------------------------------------------------------ actions
\* postDailyTopics, one topic: the post is created and the topic stored under
\* its post id.
PostTopic ==
  /\ Len(topics) < MaxTopics
  /\ topics' = Append(topics, createTopic(Len(topics) + 1))
  /\ last' = "ok"
  /\ UNCHANGED <<agents, predictions, fetching, batch, calls, paid, sc_in, sc_out>>

\* checkNewPredictions, one post, up to `await moltbook.getComments(post.id)`:
\* a post without a topic or with a resolved topic is skipped.
CheckNewPredictionsBegin(post) ==
  /\ post \notin fetching
  /\ Cardinality(fetching) < MaxRuns
  /\ LET known == \E t \in DOMAIN topics : topics[t].post_id = post
         topic == CHOOSE t \in DOMAIN topics : topics[t].post_id = post
     IN  IF ~known \/ topics[topic].resolved
         THEN /\ fetching' = fetching
              /\ last' = "ok"
         ELSE /\ fetching' = fetching \cup {post}
              /\ last' = "ok"
  /\ UNCHANGED <<agents, predictions, topics, batch, calls, paid, sc_in, sc_out>>

\* The loop over the comments of one post: st holds the tables, cs the ids of
\* the comments still to read, in the order returned.
RECURSIVE CommentLoop(_, _, _)
CommentLoop(st, topicId, cs) ==
  IF cs = <<>> THEN st
  ELSE
    LET c == Head(cs)
        comment == Comments[c]
        existingPrediction ==
          \E k \in DOMAIN st.predictions :
             /\ st.predictions[k].status = "pending"
             /\ st.predictions[k].comment_id = c
    IN  IF existingPrediction \/ comment.parsed = {}
        THEN CommentLoop(st, topicId, Tail(cs))
        ELSE
          LET parsed == CHOOSE x \in comment.parsed : TRUE
              ag == getOrCreateAgent(st.agents, comment.author)
              row == createPrediction(
                       [ agentId |-> comment.author, topicId |-> topicId,
                         commentId |-> c, predictionText |-> parsed.prediction,
                         outcomePredicted |-> parsed.outcome,
                         confidence |-> parsed.confidence ])
          IN  CommentLoop([agents |-> ag, predictions |-> Append(st.predictions, row)],
                          topicId, Tail(cs))

\* The ids in cs, in increasing order.
RECURSIVE InOrder(_, _)
InOrder(cs, i) ==
  IF i > Len(Comments) THEN <<>>
  ELSE (IF i \in cs THEN <<i>> ELSE <<>>) \o InOrder(cs, i + 1)

\* checkNewPredictions, one post, from the return of getComments on: the
\* comments returned are read one after the other without suspending.
CheckNewPredictionsResume(post, cs) ==
  /\ post \in fetching
  /\ \A c \in cs : Comments[c].post = post
  /\ LET topic == CHOOSE t \in DOMAIN topics : topics[t].post_id = post
         st == CommentLoop([agents |-> agents, predictions |-> predictions],
                           topic, InOrder(cs, 1))
     IN  /\ Len(st.predictions) <= MaxPredictions
         /\ agents' = st.agents
         /\ predictions' = st.predictions
  /\ fetching' = fetching \ {post}
  /\ last' = "ok"
  /\ UNCHANGED <<topics, batch, calls, paid, sc_in, sc_out>>

\* resolvePrediction(predictionId, correct), called on its own.
ResolvePrediction(predictionId, correct) ==
  LET r == resolvePrediction(agents, predictions, predictionId, correct)
  IN  /\ agents' = r.agents
      /\ predictions' = r.predictions
      /\ paid' = Paid(r)
      /\ last' = r.kind
      /\ UNCHANGED <<topics, fetching, batch, calls, sc_in, sc_out>>

\* One turn of resolveTopic's loop for topic t, on the tables tp (topics as
\* the call leaves them): the call of resolvePrediction for the first queued
\* prediction runs to its end, then the loop suspends on its `await`.
LoopTurn(t, tp, b) ==
  LET p == Head(b.queue)
      correct == isCorrect(predictions[p], b.actualOutcome, b.matchingOutcomes)
      r == resolvePrediction(agents, predictions, p, correct)
  IN  /\ topics' = tp
      /\ agents' = r.agents
      /\ predictions' = r.predictions
      /\ paid' = Paid(r)
      /\ batch' = [batch EXCEPT ![t] =
                     [b EXCEPT !.active = TRUE,
                               !.queue = Tail(b.queue),
                               !.results = IF r.kind = "ok" THEN Append(@, r.result) ELSE @]]
      /\ last' = r.kind

\* A bug that drops the check of topic.resolved.
topicResolvedNever(topic) == FALSE

\* resolveTopic's test `topic.resolved`.
topicResolved(topic) == topic.resolved

\* resolveTopic(topicId, actualOutcome, matchingOutcomes) up to its first
\* suspension: the checks, the marking of the topic, the list of the pending
\* predictions of the topic and the first turn of the loop.
ResolveTopic(topicId, actualOutcome, matchingOutcomes) ==
  /\ IF topicId \notin DOMAIN topics
     THEN /\ last' = "Topic not found"
          /\ UNCHANGED <<agents, predictions, topics, batch, paid>>
     ELSE IF topicResolved(topics[topicId])
     THEN /\ last' = "Topic already resolved"
          /\ UNCHANGED <<agents, predictions, topics, batch, paid>>
     ELSE
       LET tp == [topics EXCEPT ![topicId] = dbResolveTopic(@, actualOutcome)]
           queue == SelectSeq(getPendingPredictions(predictions),
                              LAMBDA p : predictions[p].topic_id = topicId)
           b == [ active |-> FALSE, predictions |-> queue, queue |-> queue, results |-> <<>>,
                  actualOutcome |-> actualOutcome, matchingOutcomes |-> matchingOutcomes ]
       IN  IF queue = <<>>
           THEN /\ topics' = tp
                /\ last' = "ok"
                /\ UNCHANGED <<agents, predictions, batch, paid>>
           ELSE LoopTurn(topicId, tp, b)
  /\ UNCHANGED <<fetching, calls, sc_in, sc_out>>

\* resolveTopic resumed after an `await resolvePrediction(...)`: the next turn
\* of the loop, or the return of the results when the list is exhausted.
ResolveTopicResume(topicId) ==
  /\ batch[topicId].active
  /\ IF batch[topicId].queue = <<>>
     THEN /\ batch' = [batch EXCEPT ![topicId] = IdleBatch]
          /\ last' = "ok"
          /\ UNCHANGED <<agents, predictions, topics, paid>>
     ELSE LoopTurn(topicId, topics, batch[topicId])
  /\ UNCHANGED <<fetching, calls, sc_in, sc_out>>

\* The process ends (process.exit, or it is killed) while a resolveTopic call
\* is suspended in its loop: the suspended calls are gone with the process,
\* the tables stay as the statements executed so far left them.
Interrupt ==
  /\ \E t \in DOMAIN batch : batch[t].active
  /\ batch' = [t \in DOMAIN batch |-> IdleBatch]
  /\ fetching' = {}
  /\ last' = "interrupted"
  /\ UNCHANGED <<agents, predictions, topics, calls, paid, sc_in, sc_out>>

Next ==
  \/ PostTopic
  \/ \E post \in 1..MaxTopics : CheckNewPredictionsBegin(post)
  \/ \E post \in 1..MaxTopics, cs \in SUBSET DOMAIN Comments :
        CheckNewPredictionsResume(post, cs)
  \/ \E p \in 1..(MaxPredictions + 1), correct \in BOOLEAN : ResolvePrediction(p, correct)
  \/ \E t \in 1..MaxTopics, o \in ActualOutcomes, m \in MatchingOutcomes :
        ResolveTopic(t, o, m)
  \/ \E t \in 1..MaxTopics : ResolveTopicResume(t)
  \/ Interrupt

Spec == Init /\ [][Next]_vars

\* ------------------------------------------- the scoring calculator, alone
ScoreInit ==
  /\ agents = [n \in {} |-> NewAgent]
  /\ predictions = <<>>
  /\ topics = <<>>
  /\ fetching = {}
  /\ batch = [t \in 1..MaxTopics |-> IdleBatch]
  /\ calls = <<>>
  /\ last = "ok"
  /\ paid = [n \in Names |-> 0]
  /\ sc_in \in (ConfLo..ConfHi) \X (0..MaxStreakIn)
  /\ sc_out = <<>>

\* calculateReward(confidence, currentStreak) is called.
Score ==
  /\ sc_out = <<>>
  /\ sc_out' = <<calculateReward(sc_in[1], sc_in[2])>>
  /\ UNCHANGED <<agents, predictions, topics, fetching, batch, calls, last, paid, sc_in>>

ScoreNext == Score

ScoreSpec == ScoreInit /\ [][ScoreNext]_vars

\* ------------------------------------- settlements that call the ledger
\* The tables of a database file in which predictions carry an on_chain_id,
\* the column resolvePrediction reads before it calls the ledger, and the
\* agent may have a wallet (updateAgentWallet): one agent with a streak of
\* s0 settlements, two pending predictions of it on two topics.
LedgerInit ==
  /\ \E s0 \in 0..MaxStreak0, w \in {{}, {"0xa11ce"}} :
        agents = [n \in {"alice"} |->
                    [NewAgent EXCEPT !.wallet_address = w,
                                     !.correct_predictions = s0,
                                     !.current_streak = s0,
                                     !.best_streak = s0]]
  /\ \E o1 \in {{}, {"0xp1"}}, o2 \in {{}, {"0xp2"}} :
        predictions =
          << [createPrediction(
                [ agentId |-> "alice", topicId |-> 1, commentId |-> 1,
                  predictionText |-> "It will happen", outcomePredicted |-> "happen",
                  confidence |-> 8 ]) EXCEPT !.on_chain_id = o1],
             [createPrediction(
                [ agentId |-> "alice", topicId |-> 2, commentId |-> 2,
                  predictionText |-> "It will fail", outcomePredicted |-> "fail",
                  confidence |-> 5 ]) EXCEPT !.on_chain_id = o2] >>
  /\ topics = <<createTopic(1), createTopic(2)>>
  /\ fetching = {}
  /\ batch = [t \in 1..MaxTopics |-> IdleBatch]
  /\ calls = <<>>
  /\ last = "ok"
  /\ paid = [n \in Names |-> 0]
  /\ sc_in = <<>>
  /\ sc_out = <<>>

\* resolvePrediction's conditions for calling the ledger, useBlockchain being
\* true: the prediction has an on_chain_id and, for a correct prediction, the
\* agent has a wallet.
ledgerCalled(prediction, agent, correct) ==
  /\ prediction.on_chain_id # {}
  /\ correct => agent.wallet_address # {}

\* resolvePrediction from the return of the ledger call on, with the txHash
\* it got: db.resolvePrediction writes the prediction row and the agent row
\* as they are now; the reward and newStreak returned are those computed
\* before the call.
resolvePredictionResume(ag, preds, call, txHash) ==
  LET prediction == preds[call.predictionId]
  IN  [ kind |-> "ok",
        predictions |-> [preds EXCEPT ![call.predictionId] =
                            dbResolvePredictionRow(@, call.correct, txHash)],
        agents |-> [ag EXCEPT ![prediction.agent_id] =
                            dbResolvePredictionAgent(@, call.correct)],
        result |-> [ predictionId |-> call.predictionId,
                     agentName |-> call.agentName,
                     correct |-> call.correct, reward |-> call.reward,
                     newStreak |-> call.newStreak, txHash |-> txHash ] ]

\* A bug that lets the failure of the ledger end the settlement.
onLedgerErrorRethrow(ag, preds, call) ==
  [ kind |-> "Blockchain resolution failed", agents |-> ag, predictions |-> preds,
    result |-> NoResult ]

\* resolvePrediction's `catch (error)` around the ledger call: the error is
\* logged and the function goes on with txHash undefined.
onLedgerError(ag, preds, call) == resolvePredictionResume(ag, preds, call, {})

\* resolvePrediction(predictionId, correct) up to its first suspension: the
\* checks and the scoring, then either the ledger call, on which it suspends,
\* or, without one, the rest of the function.
SettleForecast(predictionId, correct) ==
  /\ IF \/ predictionId \notin DOMAIN predictions
        \/ alreadyResolved(predictions[predictionId])
        \/ ~ledgerCalled(predictions[predictionId],
                         agents[predictions[predictionId].agent_id], correct)
     THEN LET r == resolvePrediction(agents, predictions, predictionId, correct)
          IN  /\ agents' = r.agents
              /\ predictions' = r.predictions
              /\ paid' = Paid(r)
              /\ last' = r.kind
              /\ calls' = calls
     ELSE LET prediction == predictions[predictionId]
              agent == agents[prediction.agent_id]
              scoring == calculateReward(prediction.confidence, agent.current_streak)
          IN  /\ Len(calls) < MaxCalls
              /\ calls' = Append(calls,
                             [ predictionId |-> predictionId,
                               agentName |-> prediction.agent_id,
                               correct |-> correct,
                               reward |-> IF correct THEN scoring.totalReward ELSE 0,
                               newStreak |-> IF correct THEN scoring.newStreak ELSE 0 ])
              /\ UNCHANGED <<agents, predictions, paid, last>>
  /\ UNCHANGED <<topics, fetching, batch, sc_in, sc_out>>

\* The ledger call of the k-th suspended resolvePrediction ends, with a
\* transaction hash (ok) or with an error, and the function runs to its end.
LedgerReturn(k, ok) ==
  /\ k \in DOMAIN calls
  /\ LET r == IF ok THEN resolvePredictionResume(agents, predictions, calls[k], {"0xtx"})
                    ELSE onLedgerError(agents, predictions, calls[k])
     IN  /\ agents' = r.agents
         /\ predictions' = r.predictions
         /\ paid' = Paid(r)
         /\ last' = r.kind
  /\ calls' = SubSeq(calls, 1, k - 1) \o SubSeq(calls, k + 1, Len(calls))
  /\ UNCHANGED <<topics, fetching, batch, sc_in, sc_out>>

LedgerNext ==
  \/ \E p \in 1..3, correct \in BOOLEAN : SettleForecast(p, correct)
  \/ \E k \in 1..MaxCalls, ok \in BOOLEAN : LedgerReturn(k, ok)

LedgerSpec == LedgerInit /\ [][LedgerNext]_vars

\* ----------------------------------------- the outcome matcher in a batch
\* The outcome fragments and the actual outcomes the matcher is run on.
MatchFragments == {"happen", "SUCCEED", "fail", "not happen", "win"}
MatchActualOutcomes == {"Yes", "No", "It happened", "TRUE", "Never"}

\* One topic with one pending prediction, whose outcome fragment is any of
\* MatchFragments, of an agent with a streak of s0 settlements.
MatchInit ==
  /\ \E s0 \in 0..MaxStreak0 :
        agents = [n \in {"alice"} |->
                    [NewAgent EXCEPT !.correct_predictions = s0,
                                     !.current_streak = s0,
                                     !.best_streak = s0]]
  /\ \E f \in MatchFragments :
        predictions =
          << createPrediction(
               [ agentId |-> "alice", topicId |-> 1, commentId |-> 1,
                 predictionText |-> f, outcomePredicted |-> f,
                 confidence |-> 8 ]) >>
  /\ topics = <<createTopic(1)>>
  /\ fetching = {}
  /\ batch = [t \in 1..MaxTopics |-> IdleBatch]
  /\ calls = <<>>
  /\ last = "ok"
  /\ paid = [n \in Names |-> 0]
  /\ sc_in = <<>>
  /\ sc_out = <<>>

MatchNext ==
  \/ \E o \in MatchActualOutcomes, m \in MatchingOutcomes : ResolveTopic(1, o, m)
  \/ ResolveTopicResume(1)

MatchSpec == MatchInit /\ [][MatchNext]_vars

\* ------------------------------------------------- parser specification
\* The comments the parser is run on: a first line, a CONFIDENCE line and a
\* CATEGORY line, each of them possibly missing.

PredictionLines ==
  { Chars("BTC will moon by March 2026"),
    Chars("PREDICTION: BTC will moon"),
    Chars("prediction: BTC will moon by March 2026"),
    Chars("PREDICTION: BTC will moon within 30 days"),
    Chars("PREDICTION: BTC will moon within 2 weeks"),
    Chars("PREDICTION: BTC will moon within 30 days by March 2026"),
    Chars("PREDICTION: BTC will moon by end of year"),
    Chars("PREDICTION: BTC will moon by 13/45/2026"),
    Chars("PREDICTION:") }
ConfidenceLines ==
  { <<>>,
    Chars("CONFIDENCE: 8"),
    Chars("CONFIDENCE: 0"),
    Chars("confidence: 15"),
    Chars("CONFIDENCE: about 8") }
CategoryLines ==
  { <<>>,
    Chars("CATEGORY: crypto"),
    Chars("CATEGORY: AI"),
    Chars("CATEGORY: technology"),
    Chars("CATEGORY: sports") }

Contents ==
  { p \o (IF c = <<>> THEN <<>> ELSE <<"\n">> \o c)
      \o (IF k = <<>> THEN <<>> ELSE <<"\n">> \o k) :
    p \in PredictionLines, c \in ConfidenceLines, k \in CategoryLines }

\* The tables before a comment of a new author on the post of topic 1 is read.
ParseInit ==
  /\ agents = [n \in {} |-> NewAgent]
  /\ predictions = <<>>
  /\ topics = <<createTopic(1)>>
  /\ fetching = {}
  /\ batch = [t \in 1..MaxTopics |-> IdleBatch]
  /\ calls = <<>>
  /\ last = "ok"
  /\ paid = [n \in Names |-> 0]
  /\ sc_in \in {<<c>> : c \in Contents}
  /\ sc_out = <<>>

\* The body of checkNewPredictions' loop over the comments, for one comment
\* of alice with the content sc_in[1]: parsePrediction, then, unless it
\* returned null, getOrCreateAgent and createPrediction.
IngestComment ==
  /\ sc_out = <<>>
  /\ LET parsed == parsePrediction(sc_in[1])
     IN  /\ sc_out' = <<parsed>>
         /\ IF parsed = {}
            THEN UNCHANGED <<agents, predictions>>
            ELSE LET x == CHOOSE x \in parsed : TRUE
                 IN  /\ agents' = getOrCreateAgent(agents, "alice")
                     /\ predictions' =
                          Append(predictions,
                                 createPrediction(
                                   [ agentId |-> "alice", topicId |-> 1, commentId |-> 1,
                                     predictionText |-> Text(x.prediction),
                                     outcomePredicted |-> Text(x.outcome),
                                     confidence |-> x.confidence ]))
  /\ last' = "ok"
  /\ UNCHANGED <<topics, fetching, batch, calls, paid, sc_in>>

ParseNext == IngestComment

ParseSpec == ParseInit /\ [][ParseNext]_vars

\* ------------------------------------------------------- topic generator
MaxCount == 6

\* Object.keys(topicTemplates)
topicCategories == <<"tech", "crypto", "ai", "world", "science">>
DefaultCount == 3

Range(seq) == {seq[i] : i \in DOMAIN seq}

\* A bug that picks among all the categories at every turn.
categoryChoicesAll(selectedCategories) == Range(topicCategories)

\* One turn of generateDailyTopics' loop: the categories getRandomElement may
\* return, the remaining ones, or all of them once none remains.
categoryChoices(selectedCategories) ==
  LET remainingCategories == Range(topicCategories) \ Range(selectedCategories)
  IN  IF remainingCategories # {} THEN remainingCategories
      ELSE Range(topicCategories)

\* The values selectedCategories may have after count turns.
RECURSIVE selectedCategoriesAfter(_)
selectedCategoriesAfter(count) ==
  IF count <= 0 THEN {<<>>}
  ELSE UNION { {Append(sel, c) : c \in categoryChoices(sel)} :
               sel \in selectedCategoriesAfter(count - 1) }

\* generateTopic(category) for a given category: the topic keeps it; title and
\* deadline are random and not modelled.
generateTopic(category) == [category |-> category]

\* generateDailyTopics(count): the arrays it may return.
generateDailyTopics(count) ==
  { [i \in DOMAIN sel |-> generateTopic(sel[i])] : sel \in selectedCategoriesAfter(count) }

\* The call: sc_in is <<count>>, or <<>> when count is omitted.
GenInit ==
  /\ agents = [n \in {} |-> NewAgent]
  /\ predictions = <<>>
  /\ topics = <<>>
  /\ fetching = {}
  /\ batch = [t \in 1..MaxTopics |-> IdleBatch]
  /\ calls = <<>>
  /\ last = "ok"
  /\ paid = [n \in Names |-> 0]
  /\ sc_in \in {<<>>} \cup {<<n>> : n \in 0..MaxCount}
  /\ sc_out = <<>>

GenerateDailyTopics ==
  /\ sc_out = <<>>
  /\ LET count == IF sc_in = <<>> THEN DefaultCount ELSE sc_in[1]
     IN  \E result \in generateDailyTopics(count) : sc_out' = <<result>>
  /\ UNCHANGED <<agents, predictions, topics, fetching, batch, calls, last, paid, sc_in>>

GenNext == GenerateDailyTopics

GenSpec == GenInit /\ [][GenNext]_vars

\* --------------------------------------------------------- market filter
MaxMarkets == 2

\* Times are days from now.  minDeadline is now plus 7 days; maxDeadline is
\* now plus 6 months of the calendar, taken as 184 days.
minDeadline == 7
maxDeadline == 184
DefaultMinLiquidity == 10000

\* The market of the tests, and markets that differ from it in one or two
\* fields.  endDate is {} where it is null.
baseMarket ==
  [ question |-> "Will something happen?", outcomes |-> <<"Yes", "No">>,
    endDate |-> {30}, closed |-> FALSE, resolved |-> FALSE, liquidity |-> 50000 ]

Markets ==
  { baseMarket,
    [baseMarket EXCEPT !.closed = TRUE],
    [baseMarket EXCEPT !.resolved = TRUE],
    [baseMarket EXCEPT !.closed = TRUE, !.resolved = TRUE],
    [baseMarket EXCEPT !.liquidity = 5000],
    [baseMarket EXCEPT !.liquidity = 10000],
    [baseMarket EXCEPT !.liquidity = 9999, !.endDate = {}],
    [baseMarket EXCEPT !.endDate = {}],
    [baseMarket EXCEPT !.endDate = {minDeadline - 1}],
    [baseMarket EXCEPT !.endDate = {minDeadline}],
    [baseMarket EXCEPT !.endDate = {maxDeadline}],
    [baseMarket EXCEPT !.endDate = {maxDeadline + 1}],
    [baseMarket EXCEPT !.outcomes = <<"Yes">>],
    [baseMarket EXCEPT !.outcomes = <<>>],
    [baseMarket EXCEPT !.question = "Too short"],
    [baseMarket EXCEPT !.question = "Will it go"],
    [baseMarket EXCEPT !.question = ""] }

\* A bug that lets a resolved market through.
suitableIgnoringResolved(market, minLiquidity) ==
  /\ ~market.closed
  /\ ~(market.liquidity < minLiquidity)
  /\ \A endDate \in market.endDate :
        ~(endDate < minDeadline \/ endDate > maxDeadline)
  /\ ~(Len(market.outcomes) < 2)
  /\ ~(market.question = "" \/ Len(Chars(market.question)) < 10)

\* The callback of markets.filter: TRUE where no test returns false.
suitable(market, minLiquidity) ==
  /\ ~(market.closed \/ market.resolved)
  /\ ~(market.liquidity < minLiquidity)
  /\ \A endDate \in market.endDate :
        ~(endDate < minDeadline \/ endDate > maxDeadline)
  /\ ~(Len(market.outcomes) < 2)
  /\ ~(market.question = "" \/ Len(Chars(market.question)) < 10)

\* Array.prototype.filter
RECURSIVE filterSuitableMarkets(_, _)
filterSuitableMarkets(markets, minLiquidity) ==
  IF markets = <<>> THEN <<>>
  ELSE (IF suitable(Head(markets), minLiquidity) THEN <<Head(markets)>> ELSE <<>>)
         \o filterSuitableMarkets(Tail(markets), minLiquidity)

\* The call: sc_in is <<markets, minLiquidity>>, or <<markets>> when
\* minLiquidity is omitted.
FilterInit ==
  /\ agents = [n \in {} |-> NewAgent]
  /\ predictions = <<>>
  /\ topics = <<>>
  /\ fetching = {}
  /\ batch = [t \in 1..MaxTopics |-> IdleBatch]
  /\ calls = <<>>
  /\ last = "ok"
  /\ paid = [n \in Names |-> 0]
  /\ \E n \in 0..MaxMarkets : \E markets \in [1..n -> Markets] :
        sc_in \in {<<markets>>} \cup {<<markets, l>> : l \in {0, 10000, 50001}}
  /\ sc_out = <<>>

FilterSuitableMarkets ==
  /\ sc_out = <<>>
  /\ LET minLiquidity == IF Len(sc_in) = 1 THEN DefaultMinLiquidity ELSE sc_in[2]
     IN  sc_out' = <<filterSuitableMarkets(sc_in[1], minLiquidity)>>
  /\ UNCHANGED <<agents, predictions, topics, fetching, batch, calls, last, paid, sc_in>>

FilterNext == FilterSuitableMarkets

FilterSpec == FilterInit /\ [][FilterNext]_vars

\* ------------------------------------------------------ on-chain registry
\* OraclePredictions.  In this specification agents is agentStats together
\* with agentRegistered, predictions is the predictions mapping, paid the
\* tokens minted to each wallet, calls the events emitted so far and last the
\* outcome of the last transaction: "ok" or the reason of the revert.
\* Amounts are in units of 10^16 wei, the hundredth of a token.
MaxChainTime == 1
MaxEvents == 4
MaxChainStreak0 == 11

BASE_REWARD == 100 * 100
MAX_STREAK_BONUS == 20

ChainAgentIds == {"", "alice"}
ChainWallets == {"0xa11ce"}
\* address(0)
NoWallet == "0x0"
PredictionHashes == {"h1"}
ChainConfidences == {0, 1, 10, 11}

\* keccak256(abi.encodePacked(agentId, predictionHash, block.timestamp)),
\* taken as injective: the id is the triple.
PredictionIdOf(agentId, predictionHash, timestamp) == <<agentId, predictionHash, timestamp>>
PredictionIds ==
  {PredictionIdOf(a, h, t) : a \in ChainAgentIds, h \in PredictionHashes, t \in 0..MaxChainTime}

\* The value of a mapping at a key never written.
ZeroPrediction ==
  [ agentId |-> "", predictionHash |-> "", confidence |-> 0, timestamp |-> 0,
    resolved |-> FALSE, correct |-> FALSE, reward |-> 0 ]
ZeroStats ==
  [ registered |-> FALSE, walletAddress |-> NoWallet, totalPredictions |-> 0,
    correctPredictions |-> 0, currentStreak |-> 0, bestStreak |-> 0,
    totalRewardsEarned |-> 0 ]

\* A bug that leaves the streak bonus uncapped.
onChainRewardNoCap(confidence, currentStreak) ==
  LET confidenceMultiplier == confidence * 10
      streakBonus == 10 + currentStreak
  IN  (BASE_REWARD * confidenceMultiplier * streakBonus) \div 500

\* resolvePrediction's reward, from pred.confidence and stats.currentStreak as
\* incremented.  pred.confidence is at most 10, so that the uint8 product
\* pred.confidence * 10 is at most 100 and never overflows.
onChainReward(confidence, currentStreak) ==
  LET confidenceMultiplier == confidence * 10
      streakBonus == IF 10 + currentStreak > MAX_STREAK_BONUS THEN MAX_STREAK_BONUS
                     ELSE 10 + currentStreak
  IN  (BASE_REWARD * confidenceMultiplier * streakBonus) \div 500

\* The rewards of `streak` correct predictions of confidence 5 in a row, from
\* streak 0 on.
RECURSIVE RewardsOfStreak(_)
RewardsOfStreak(streak) ==
  IF streak = 0 THEN 0 ELSE RewardsOfStreak(streak - 1) + onChainReward(5, streak)

\* The registry after deployment, or after alice was registered and had s0
\* predictions of confidence 5, all resolved as correct, under ids that are
\* not among PredictionIds.
ChainInit ==
  /\ \E s0 \in {0} \cup (MaxChainStreak0 - 3)..MaxChainStreak0,
        w \in ChainWallets \cup {NoWallet} :
        /\ s0 = 0 => w = NoWallet
        /\ agents = [a \in ChainAgentIds |->
                       IF a = "alice" /\ s0 > 0
                       THEN [ registered |-> TRUE, walletAddress |-> w,
                              totalPredictions |-> s0, correctPredictions |-> s0,
                              currentStreak |-> s0, bestStreak |-> s0,
                              totalRewardsEarned |-> RewardsOfStreak(s0) ]
                       ELSE ZeroStats]
        /\ paid = [x \in ChainWallets |-> IF x = w THEN RewardsOfStreak(s0) ELSE 0]
  /\ predictions = [id \in PredictionIds |-> ZeroPrediction]
  /\ topics = <<>>
  /\ fetching = {}
  /\ batch = [t \in 1..MaxTopics |-> IdleBatch]
  /\ calls = <<>>
  /\ last = "ok"
  /\ sc_in = <<>>
  /\ sc_out = <<>>

\* A transaction that reverts: the state is as before and no event is
\* emitted.
Revert(reason) ==
  /\ last' = reason
  /\ UNCHANGED <<agents, predictions, paid, calls>>

\* A transaction that succeeds and emits one event.
Emit(event) ==
  /\ Len(calls) < MaxEvents
  /\ calls' = Append(calls, event)
  /\ last' = "ok"

\* block.timestamp: not before the timestamp of any prediction stored.
BlockTimestamps ==
  LET latest == MaxOf({predictions[id].timestamp : id \in PredictionIds})
  IN  {t \in 1..MaxChainTime : t >= latest /\ t <= latest + 1}

\* registerAgent(agentId, wallet), sent by the owner or by someone else.
RegisterAgent(owner, agentId, wallet) ==
  /\ IF ~owner THEN Revert("OwnableUnauthorizedAccount")
     ELSE IF agents[agentId].registered THEN Revert("Agent already registered")
     ELSE /\ agents' = [agents EXCEPT ![agentId].registered = TRUE,
                                      ![agentId].walletAddress = wallet]
          /\ Emit([event |-> "AgentRegistered", agentId |-> agentId, wallet |-> wallet])
          /\ UNCHANGED <<predictions, paid>>
  /\ UNCHANGED <<topics, fetching, batch, sc_in, sc_out>>

\* updateAgentWallet(agentId, newWallet); it emits no event.
UpdateAgentWallet(owner, agentId, newWallet) ==
  /\ IF ~owner THEN Revert("OwnableUnauthorizedAccount")
     ELSE IF ~agents[agentId].registered THEN Revert("Agent not registered")
     ELSE /\ agents' = [agents EXCEPT ![agentId].walletAddress = newWallet]
          /\ last' = "ok"
          /\ UNCHANGED <<predictions, paid, calls>>
  /\ UNCHANGED <<topics, fetching, batch, sc_in, sc_out>>

\* submitPrediction(agentId, predictionHash, confidence) in a block of the
\* given timestamp.
SubmitPrediction(owner, agentId, predictionHash, confidence, timestamp) ==
  /\ timestamp \in BlockTimestamps
  /\ IF ~owner THEN Revert("OwnableUnauthorizedAccount")
     ELSE IF ~agents[agentId].registered THEN Revert("Agent not registered")
     ELSE IF ~(confidence >= 1 /\ confidence <= 10) THEN Revert("Confidence must be 1-10")
     ELSE /\ predictions' =
               [predictions EXCEPT ![PredictionIdOf(agentId, predictionHash, timestamp)] =
                  [ agentId |-> agentId, predictionHash |-> predictionHash,
                    confidence |-> confidence, timestamp |-> timestamp,
                    resolved |-> FALSE, correct |-> FALSE, reward |-> 0 ]]
          /\ agents' = [agents EXCEPT ![agentId].totalPredictions = @ + 1]
          /\ Emit([event |-> "PredictionSubmitted",
                   predictionId |-> PredictionIdOf(agentId, predictionHash, timestamp),
                   agentId |-> agentId, confidence |-> confidence])
          /\ UNCHANGED paid
  /\ UNCHANGED <<topics, fetching, batch, sc_in, sc_out>>

\* resolvePrediction(predictionId, correct); minter tells whether the token
\* lets this contract mint (mintReward requires the sender to be the game
\* contract or the owner of the token).
ChainResolvePrediction(owner, predictionId, correct, minter) ==
  /\ LET pred == predictions[predictionId]
         stats == agents[pred.agentId]
         currentStreak == stats.currentStreak + 1
         reward == onChainReward(pred.confidence, currentStreak)
     IN  IF ~owner THEN Revert("OwnableUnauthorizedAccount")
         ELSE IF pred.resolved THEN Revert("Already resolved")
         ELSE IF ~(Len(Chars(pred.agentId)) > 0) THEN Revert("Prediction not found")
         ELSE IF ~correct
         THEN /\ predictions' = [predictions EXCEPT ![predictionId].resolved = TRUE,
                                                    ![predictionId].correct = FALSE]
              /\ agents' = [agents EXCEPT ![pred.agentId].currentStreak = 0]
              /\ Emit([event |-> "PredictionResolved", predictionId |-> predictionId,
                       agentId |-> pred.agentId, correct |-> FALSE, reward |-> 0])
              /\ UNCHANGED paid
         ELSE IF stats.walletAddress # NoWallet /\ ~minter THEN Revert("Not authorized")
         ELSE /\ predictions' = [predictions EXCEPT ![predictionId].resolved = TRUE,
                                                    ![predictionId].correct = TRUE,
                                                    ![predictionId].reward = reward]
              /\ agents' = [agents EXCEPT
                              ![pred.agentId].correctPredictions = @ + 1,
                              ![pred.agentId].currentStreak = currentStreak,
                              ![pred.agentId].bestStreak =
                                 IF currentStreak > @ THEN currentStreak ELSE @,
                              ![pred.agentId].totalRewardsEarned = @ + reward]
              /\ paid' = IF stats.walletAddress # NoWallet
                         THEN [paid EXCEPT ![stats.walletAddress] = @ + reward]
                         ELSE paid
              /\ Emit([event |-> "PredictionResolved", predictionId |-> predictionId,
                       agentId |-> pred.agentId, correct |-> TRUE, reward |-> reward])
  /\ UNCHANGED <<topics, fetching, batch, sc_in, sc_out>>

ChainNext ==
  \/ \E owner \in BOOLEAN, a \in ChainAgentIds, w \in ChainWallets \cup {NoWallet} :
        RegisterAgent(owner, a, w)
  \/ \E owner \in BOOLEAN, a \in ChainAgentIds, w \in ChainWallets \cup {NoWallet} :
        UpdateAgentWallet(owner, a, w)
  \/ \E owner \in BOOLEAN, a \in ChainAgentIds, h \in PredictionHashes,
        c \in ChainConfidences, t \in 1..MaxChainTime :
        SubmitPrediction(owner, a, h, c, t)
  \/ \E owner \in BOOLEAN, id \in PredictionIds, correct \in BOOLEAN, minter \in BOOLEAN :
        ChainResolvePrediction(owner, id, correct, minter)

ChainSpec == ChainInit /\ [][ChainNext]_vars

\* ------------------------------------------------------------------- claims
\* This step settles the pending prediction p with the status st.
Settles(p, st) ==
  /\ predictions[p].status = "pending"
  /\ p \in DOMAIN predictions'
  /\ predictions'[p].status = st

Settled == {"resolved_correct", "resolved_wrong"}

\* C1: whatever the streak of the agent was, a step that settles one of its
\* pending predictions as incorrect leaves its current streak at exactly 0.
C1_StreakReset ==
  [][\A p \in DOMAIN predictions :
        Settles(p, "resolved_wrong") =>
          agents'[predictions[p].agent_id].current_streak = 0]_vars

\* An agent that had a streak of at least 1 and lost it: only an incorrect
\* settlement takes a streak back to 0.
C1_Witness ==
  \E a \in DOMAIN agents :
     /\ agents[a].best_streak >= 1
     /\ agents[a].current_streak = 0
     /\ \E p \in DOMAIN predictions :
           predictions[p].agent_id = a /\ predictions[p].status = "resolved_wrong"

\* C2: resolvePrediction on a prediction that is no longer pending, called on
\* its own or from resolveTopic's loop, ends with the already-resolved error
\* and changes no prediction row and no agent row.
C2_ResettleRejected ==
  [][/\ \A p \in DOMAIN predictions, c \in BOOLEAN :
          (predictions[p].status # "pending" /\ ResolvePrediction(p, c)) =>
             /\ last' = "Prediction already resolved"
             /\ predictions' = predictions
             /\ agents' = agents
             /\ paid' = paid
     /\ \A t \in DOMAIN batch :
          ( /\ batch[t].active
            /\ batch[t].queue # <<>>
            /\ predictions[Head(batch[t].queue)].status # "pending"
            /\ ResolveTopicResume(t) ) =>
             /\ last' = "Prediction already resolved"
             /\ predictions' = predictions
             /\ agents' = agents
             /\ paid' = paid]_vars

C2_Witness ==
  /\ last = "Prediction already resolved"
  /\ \E p \in DOMAIN predictions : predictions[p].status \in Settled
  /\ \E a \in DOMAIN agents : agents[a].current_streak >= 1

\* C3: no prediction row is ever removed, and the status of a prediction
\* changes only from pending to resolved_correct or to resolved_wrong.
C3_StatusOneWay ==
  [][\A p \in DOMAIN predictions :
        /\ p \in DOMAIN predictions'
        /\ predictions'[p].status # predictions[p].status =>
             /\ predictions[p].status = "pending"
             /\ predictions'[p].status \in Settled]_vars

C3_Witness ==
  \E p, q \in DOMAIN predictions :
     /\ predictions[p].status = "resolved_correct"
     /\ predictions[q].status = "resolved_wrong"

\* C4: a prediction has a resolved_at timestamp exactly when its status is
\* resolved_correct or resolved_wrong.
C4_TimestampIffSettled ==
  \A p \in DOMAIN predictions :
     (predictions[p].resolved_at # {}) <=> (predictions[p].status \in Settled)

C4_Witness ==
  \E p, q \in DOMAIN predictions :
     /\ predictions[p].status \in Settled /\ predictions[p].resolved_at # {}
     /\ predictions[q].status = "pending" /\ predictions[q].resolved_at = {}

\* C5: a topic has an actual outcome exactly when it has a resolution
\* timestamp and exactly when it is resolved, and no step changes the row of a
\* topic that is resolved.
C5_TopicOneShot ==
  /\ [](\A t \in DOMAIN topics :
          /\ (topics[t].actual_outcome # {}) <=> topics[t].resolved
          /\ (topics[t].resolved_at # {}) <=> topics[t].resolved)
  /\ [][\A t \in DOMAIN topics :
          topics[t].resolved => (t \in DOMAIN topics' /\ topics'[t] = topics[t])]_vars

C5_Witness ==
  \E t \in DOMAIN topics :
     /\ topics[t].resolved
     /\ topics[t].actual_outcome = {"No"}
     /\ topics[t].resolved_at # {}
     /\ \E p \in DOMAIN predictions :
           predictions[p].topic_id = t /\ predictions[p].status \in Settled

\* C6: resolveTopic on a topic id that does not exist ends with the not-found
\* error, on a resolved topic with the already-resolved error, and in both
\* cases no topic, prediction or agent row changes.
C6_ResolveTopicErrors ==
  [][\A t \in 1..MaxTopics, o \in ActualOutcomes, m \in MatchingOutcomes :
        ResolveTopic(t, o, m) =>
          /\ t \notin DOMAIN topics =>
               /\ last' = "Topic not found"
               /\ UNCHANGED <<topics, predictions, agents>>
          /\ (t \in DOMAIN topics /\ topics[t].resolved) =>
               /\ last' = "Topic already resolved"
               /\ UNCHANGED <<topics, predictions, agents>>]_vars

\* The call failed on a resolved topic that still has a pending prediction.
C6_Witness ==
  /\ last = "Topic already resolved"
  /\ \E p \in DOMAIN predictions :
        /\ predictions[p].status = "pending"
        /\ topics[predictions[p].topic_id].resolved

\* C7: a step that settles a pending prediction as correct adds 1 to the
\* correct-count, the total-count and the current streak of the owning agent
\* and makes its best streak the larger of the old best and the new streak.
C7_CorrectUpdatesAgent ==
  [][\A p \in DOMAIN predictions :
        Settles(p, "resolved_correct") =>
          LET old == agents[predictions[p].agent_id]
              new == agents'[predictions[p].agent_id]
          IN  /\ new.correct_predictions = old.correct_predictions + 1
              /\ new.total_predictions = old.total_predictions + 1
              /\ new.current_streak = old.current_streak + 1
              /\ new.best_streak = Max(old.best_streak, new.current_streak)]_vars

\* C8: the cumulative reward of every agent equals the sum of the rewards
\* returned by the settlements of its predictions settled as correct.
C8_RewardAccumulates ==
  \A a \in DOMAIN agents : agents[a].total_ort_earned = paid[a]

\* C9: a step that settles a pending prediction as incorrect adds 1 to the
\* total-count of the owning agent, leaves its correct-count, best streak and
\* cumulative reward unchanged, and returns reward 0 and newStreak 0.
C9_IncorrectUpdatesAgent ==
  [][\A p \in DOMAIN predictions :
        Settles(p, "resolved_wrong") =>
          LET old == agents[predictions[p].agent_id]
              new == agents'[predictions[p].agent_id]
              ret == resolvePrediction(agents, predictions, p, FALSE).result
          IN  /\ new.total_predictions = old.total_predictions + 1
              /\ new.correct_predictions = old.correct_predictions
              /\ new.best_streak = old.best_streak
              /\ new.total_ort_earned = old.total_ort_earned
              /\ ret.reward = 0
              /\ ret.newStreak = 0]_vars

\* C10: for a confidence c in 1..10 and a streak s, calculateReward returns
\* newStreak = s + 1, confidenceMultiplier = c / 5 (2c tenths), streak
\* multiplier = min(2.0, 1 + (s + 1) * 0.1) (min(20, 10 + s + 1) tenths) and,
\* baseReward being 100, the reward 2 * c * min(20, 10 + s + 1) (in hundredths:
\* 100 times that); calculateReward(8, 2) returns 208.00.
C10_RewardFormula ==
  (sc_out # <<>> /\ sc_in[1] \in 1..10) =>
     LET c == sc_in[1]
         s == sc_in[2]
         r == sc_out[1]
     IN  /\ r.newStreak = s + 1
         /\ r.confidenceMultiplier = 2 * c
         /\ r.streakBonus = Min(20, 10 + (s + 1))
         /\ r.totalReward = 100 * (2 * c * Min(20, 10 + s + 1))
         /\ (c = 8 /\ s = 2) => r.totalReward = 20800

C10_Witness ==
  /\ sc_in = <<8, 2>>
  /\ sc_out # <<>>
  /\ sc_out[1].totalReward = 20800
  /\ sc_out[1].streakBonus = 13

\* C11: for every streak s the streak multiplier calculateReward returns is at
\* most the cap 2.0 (20 tenths) and is exactly 2.0 for s >= 9, so that
\* calculateReward(10, 20) returns the multiplier 2.0; the reward is never more
\* than baseReward * 2 * 2 (in hundredths: 100 times that).
C11_StreakCap ==
  sc_out # <<>> =>
     LET s == sc_in[2]
         r == sc_out[1]
     IN  /\ r.streakBonus <= 20
         /\ s >= 9 => r.streakBonus = 20
         /\ sc_in = <<10, 20>> => r.streakBonus = 20
         /\ r.totalReward <= 100 * (BaseReward * 2 * 2)

C11_Witness ==
  /\ sc_in = <<10, 20>>
  /\ sc_out # <<>>
  /\ sc_out[1].streakBonus = 20
  /\ sc_out[1].newStreak = 21
  /\ sc_out[1].totalReward = 40000

\* C12: for confidences c <= c2 in 1..10 and streaks s <= s2, the reward of
\* (c, s) is at most the reward of (c2, s) and at most the reward of (c, s2).
C12_RewardMonotone ==
  (sc_out # <<>> /\ sc_in[1] \in 1..10) =>
     LET c == sc_in[1]
         s == sc_in[2]
         r == sc_out[1]
     IN  /\ \A c2 \in c..10 :
               r.totalReward <= calculateReward(c2, s).totalReward
         /\ \A s2 \in s..(MaxStreakIn + 1) :
               r.totalReward <= calculateReward(c, s2).totalReward

\* A result below the cap: a higher confidence and a longer streak both pay
\* strictly more than it.
C12_Witness ==
  /\ sc_in = <<5, 3>>
  /\ sc_out # <<>>
  /\ sc_out[1].totalReward = 14000
  /\ sc_out[1].totalReward < calculateReward(6, 3).totalReward
  /\ sc_out[1].totalReward < calculateReward(5, 4).totalReward

\* C13: for every integer confidence c, below 1 and above 10 included,
\* calculateReward(c, s) returns what it returns for c clamped into 1..10, so
\* its reward lies between the rewards of confidence 1 and of confidence 10.
C13_ConfidenceClamped ==
  sc_out # <<>> =>
     LET c == sc_in[1]
         s == sc_in[2]
         r == sc_out[1]
         clamped == IF c < 1 THEN 1 ELSE IF c > 10 THEN 10 ELSE c
     IN  /\ r = calculateReward(clamped, s)
         /\ r.confidenceMultiplier \in 2..20
         /\ calculateReward(1, s).totalReward <= r.totalReward
         /\ r.totalReward <= calculateReward(10, s).totalReward

\* A confidence below the range and one above it have been scored.
C13_Witness ==
  /\ sc_out # <<>>
  /\ \/ sc_in[1] = ConfLo /\ sc_out[1].confidenceMultiplier = 2
     \/ sc_in[1] = ConfHi /\ sc_out[1].confidenceMultiplier = 20

\* C14: when the ledger call of a suspended resolvePrediction fails, the call
\* still ends normally: the prediction gets its settled status and timestamp,
\* its tx_hash is unset, the agent row is updated as a settlement without a
\* ledger updates it, and the result returned carries no transaction hash.
C14_LedgerFailureSettles ==
  [][\A k \in DOMAIN calls :
        LedgerReturn(k, FALSE) =>
          LET call == calls[k]
              p == call.predictionId
              old == agents[predictions[p].agent_id]
              new == agents'[predictions[p].agent_id]
              ret == onLedgerError(agents, predictions, call)
          IN  /\ last' = "ok"
              /\ predictions'[p].status =
                    IF call.correct THEN "resolved_correct" ELSE "resolved_wrong"
              /\ predictions'[p].resolved_at # {}
              /\ predictions'[p].tx_hash = {}
              /\ call.correct =>
                    /\ new.correct_predictions = old.correct_predictions + 1
                    /\ new.current_streak = old.current_streak + 1
                    /\ new.best_streak = Max(old.best_streak, old.current_streak + 1)
              /\ ~call.correct =>
                    /\ new.correct_predictions = old.correct_predictions
                    /\ new.current_streak = 0
                    /\ new.best_streak = old.best_streak
              /\ ret.kind = "ok"
              /\ ret.result.predictionId = p
              /\ ret.result.correct = call.correct
              /\ ret.result.txHash = {}]_vars

\* A prediction with an on_chain_id of an agent with a wallet was settled as
\* correct, so the ledger was called, and it has no tx_hash, so the call
\* failed; the agent's streak went up.
C14_Witness ==
  /\ last = "ok"
  /\ \E p \in DOMAIN predictions :
        /\ predictions[p].on_chain_id # {}
        /\ agents[predictions[p].agent_id].wallet_address # {}
        /\ predictions[p].status = "resolved_correct"
        /\ predictions[p].tx_hash = {}
        /\ agents[predictions[p].agent_id].current_streak >= 1
        /\ calls = <<>>

\* C15: when the resolvePrediction call of one turn of resolveTopic's loop
\* fails because the prediction is no longer pending, the loop goes on with
\* the predictions that remain, and the list resolveTopic returns gets an
\* entry for the failed prediction.
C15_BatchErrorsReported ==
  [][\A t \in DOMAIN batch :
        ( /\ batch[t].active
          /\ batch[t].queue # <<>>
          /\ predictions[Head(batch[t].queue)].status # "pending"
          /\ ResolveTopicResume(t) ) =>
             /\ batch'[t].active
             /\ batch'[t].queue = Tail(batch[t].queue)
             /\ Len(batch'[t].results) = Len(batch[t].results) + 1]_vars

\* C16: when resolveTopic(t, ...) returns, the list it returns has one result
\* for each prediction that was pending and bound to t when it was called, in
\* that order, none of these predictions is pending, and no step of
\* resolveTopic(t, ...) changes a prediction bound to another topic.
C16_BatchSettlesSnapshot ==
  [][\A t \in DOMAIN batch :
        /\ (batch[t].active /\ batch[t].queue = <<>> /\ ResolveTopicResume(t)) =>
              /\ Len(batch[t].results) = Len(batch[t].predictions)
              /\ \A i \in DOMAIN batch[t].results :
                    batch[t].results[i].predictionId = batch[t].predictions[i]
              /\ \A i \in DOMAIN batch[t].predictions :
                    predictions[batch[t].predictions[i]].status \in Settled
        /\ ( \/ ResolveTopicResume(t)
             \/ \E o \in ActualOutcomes, m \in MatchingOutcomes : ResolveTopic(t, o, m) ) =>
              \A p \in DOMAIN predictions :
                 predictions[p].topic_id # t =>
                    (p \in DOMAIN predictions' /\ predictions'[p] = predictions[p])]_vars

\* C17: after a resolveTopic batch was interrupted with the topic marked
\* resolved and predictions of the topic still pending, calling
\* resolveTopic on the topic again is accepted and settles a pending
\* prediction of the topic.
C17_InterruptedBatchResumable ==
  [][\A t \in DOMAIN topics, o \in ActualOutcomes, m \in MatchingOutcomes :
        ( /\ last = "interrupted"
          /\ topics[t].resolved
          /\ \E p \in DOMAIN predictions :
                predictions[p].topic_id = t /\ predictions[p].status = "pending"
          /\ ResolveTopic(t, o, m) ) =>
             /\ last' = "ok"
             /\ \E p \in DOMAIN predictions :
                   /\ predictions[p].topic_id = t
                   /\ predictions[p].status = "pending"
                   /\ predictions'[p].status \in Settled]_vars

\* This step is a turn of resolveTopic's loop for topic t that settled a
\* prediction: the list of results of the call got one more entry.
TurnOf(t) ==
  /\ batch'[t].active
  /\ Len(batch'[t].results) =
        (IF batch[t].active THEN Len(batch[t].results) ELSE 0) + 1

\* C18: the turns of one resolveTopic batch run one after the other: a turn
\* that settles a prediction as correct computes newStreak and reward from the
\* streak the agent row holds then and leaves the row at that newStreak, a
\* turn that settles one as incorrect reports 0 and leaves the streak at 0;
\* so when the previous turn of the batch settled a prediction of the same
\* agent and the row still holds the streak it left, a correct turn reports
\* that newStreak plus 1, or 1 after an incorrect one.
C18_BatchTurnsInSequence ==
  [][\A t \in DOMAIN batch :
        TurnOf(t) =>
          LET r == batch'[t].results[Len(batch'[t].results)]
              a == r.agentName
              before == agents[a].current_streak
          IN  /\ r.correct =>
                    /\ r.newStreak = before + 1
                    /\ r.reward =
                         calculateReward(predictions[r.predictionId].confidence, before).totalReward
                    /\ agents'[a].current_streak = r.newStreak
              /\ ~r.correct =>
                    /\ r.newStreak = 0
                    /\ r.reward = 0
                    /\ agents'[a].current_streak = 0
              /\ ( /\ batch[t].active
                   /\ batch[t].results # <<>>
                   /\ batch[t].results[Len(batch[t].results)].agentName = a
                   /\ before = batch[t].results[Len(batch[t].results)].newStreak
                   /\ r.correct ) =>
                    r.newStreak = batch[t].results[Len(batch[t].results)].newStreak + 1]_vars

\* One batch settled two predictions of one agent as correct, with newStreak
\* 1 then 2, and the agent's streak is 2.
C18_Witness ==
  \E t \in DOMAIN batch :
     /\ batch[t].active
     /\ Len(batch[t].results) = 2
     /\ batch[t].results[1].agentName = batch[t].results[2].agentName
     /\ batch[t].results[1].correct /\ batch[t].results[1].newStreak = 1
     /\ batch[t].results[2].correct /\ batch[t].results[2].newStreak = 2
     /\ batch[t].results[2].reward = 12000
     /\ agents[batch[t].results[2].agentName].current_streak = 2

C20_ExplicitTermsDecide ==
  [][\A t \in DOMAIN batch :
        (TurnOf(t) /\ Len(batch'[t].matchingOutcomes) > 0) =>
          LET b == batch'[t]
              r == b.results[Len(b.results)]
              row == predictions[r.predictionId]
              fragment == IF row.outcome_predicted # {}
                          THEN CHOOSE x \in row.outcome_predicted : TRUE
                          ELSE row.prediction_text
              contained ==
                \E k \in DOMAIN b.matchingOutcomes :
                   includes(toLowerCase(Chars(fragment)),
                            toLowerCase(Chars(b.matchingOutcomes[k])))
          IN  /\ r.correct <=> contained
              /\ predictions'[r.predictionId].status =
                    IF contained THEN "resolved_correct" ELSE "resolved_wrong"
              /\ \A o \in ActualOutcomes :
                    isCorrect(row, o, b.matchingOutcomes) = contained]_vars

\* A batch with the term FAIL and the actual outcome Yes settled "fail" as
\* correct and "happen" as incorrect, the opposite of the heuristic.
C20_Witness ==
  \E t \in DOMAIN batch :
     /\ batch[t].active
     /\ batch[t].matchingOutcomes = <<"FAIL">>
     /\ batch[t].actualOutcome = "Yes"
     /\ \E i, j \in DOMAIN batch[t].results :
           /\ predictions[batch[t].results[i].predictionId].outcome_predicted = {"fail"}
           /\ batch[t].results[i].correct
           /\ predictions[batch[t].results[j].predictionId].outcome_predicted = {"happen"}
           /\ ~batch[t].results[j].correct

\* The outcome fragment of a prediction row, in lower case, and the polarity
\* of a text.
FragmentLower(row) ==
  toLowerCase(Chars(IF row.outcome_predicted # {}
                    THEN CHOOSE x \in row.outcome_predicted : TRUE
                    ELSE row.prediction_text))

HasPositiveTerm(text) == \E term \in positiveTerms : includes(text, term)
HasNegativeTerm(text) == \E term \in negativeTerms : includes(text, term)

OutcomeIsPositive(actualOutcome) ==
  \E w \in { <<"y","e","s">>, <<"h","a","p","p","e","n","e","d">>, <<"t","r","u","e">> } :
     includes(toLowerCase(Chars(actualOutcome)), w)

\* C21: in a resolveTopic batch called without matchingOutcomes, a turn
\* settles a prediction whose fragment has a positive term and no negative
\* term as correct exactly when the actual outcome contains "yes", "happened"
\* or "true", and one whose fragment has a negative term and no positive term
\* as correct exactly when the actual outcome contains none of them.
C21_HeuristicPolarity ==
  [][\A t \in DOMAIN batch :
        (TurnOf(t) /\ Len(batch'[t].matchingOutcomes) = 0) =>
          LET b == batch'[t]
              r == b.results[Len(b.results)]
              fragment == FragmentLower(predictions[r.predictionId])
              positive == HasPositiveTerm(fragment)
              negative == HasNegativeTerm(fragment)
          IN  /\ (positive /\ ~negative) =>
                    (r.correct <=> OutcomeIsPositive(b.actualOutcome))
              /\ (negative /\ ~positive) =>
                    (r.correct <=> ~OutcomeIsPositive(b.actualOutcome))
              /\ predictions'[r.predictionId].status =
                    IF r.correct THEN "resolved_correct" ELSE "resolved_wrong"]_vars

\* The upper-case SUCCEED was settled as correct against "It happened", or
\* "fail" was settled as correct against "Never".
C21_Witness ==
  \E t \in DOMAIN batch :
     /\ batch[t].active
     /\ batch[t].matchingOutcomes = <<>>
     /\ Len(batch[t].results) = 1
     /\ batch[t].results[1].correct
     /\ \/ /\ batch[t].actualOutcome = "It happened"
           /\ predictions[1].outcome_predicted = {"SUCCEED"}
        \/ /\ batch[t].actualOutcome = "Never"
           /\ predictions[1].outcome_predicted = {"fail"}

\* C22: in a resolveTopic batch called without matchingOutcomes, a turn
\* settles a prediction whose fragment has both a positive and a negative
\* term, or neither, as incorrect whatever the actual outcome is: its reward
\* is 0 and the streak of its agent is 0 afterwards.
C22_AmbiguousIsIncorrect ==
  [][\A t \in DOMAIN batch :
        (TurnOf(t) /\ Len(batch'[t].matchingOutcomes) = 0) =>
          LET b == batch'[t]
              r == b.results[Len(b.results)]
              fragment == FragmentLower(predictions[r.predictionId])
              positive == HasPositiveTerm(fragment)
              negative == HasNegativeTerm(fragment)
          IN  (positive <=> negative) =>
                 /\ ~r.correct
                 /\ r.reward = 0
                 /\ r.newStreak = 0
                 /\ predictions'[r.predictionId].status = "resolved_wrong"
                 /\ agents'[r.agentName].current_streak = 0
                 /\ paid' = paid]_vars

\* "not happen" (both polarities) was settled against the positive outcome
\* TRUE, or "win" (neither) against Yes, and the agent lost a streak of 1.
C22_Witness ==
  \E t \in DOMAIN batch :
     /\ batch[t].active
     /\ batch[t].matchingOutcomes = <<>>
     /\ Len(batch[t].results) = 1
     /\ ~batch[t].results[1].correct
     /\ predictions[1].status = "resolved_wrong"
     /\ agents["alice"].best_streak = 1
     /\ agents["alice"].current_streak = 0
     /\ \/ /\ batch[t].actualOutcome = "TRUE"
           /\ predictions[1].outcome_predicted = {"not happen"}
        \/ /\ batch[t].actualOutcome = "Yes"
           /\ predictions[1].outcome_predicted = {"win"}

\* The comment the parser specification reads has been read.
Parsed == sc_in # <<>> /\ sc_out # <<>>
HasLabel(content, label) == \E i \in DOMAIN content : At(content, i, label)

\* C23: for a comment text without a PREDICTION label parsePrediction returns
\* null, and the ingestion loop then creates no agent and no forecast for it.
C23_NoLabelNoForecast ==
  (Parsed /\ ~HasLabel(sc_in[1], W_prediction))
    => /\ sc_out[1] = {}
       /\ DOMAIN agents = {}
       /\ predictions = <<>>

\* A comment with a CONFIDENCE and a CATEGORY line but no PREDICTION label has
\* been read and nothing was stored.
C23_Witness ==
  /\ Parsed
  /\ ~HasLabel(sc_in[1], W_prediction)
  /\ HasLabel(sc_in[1], W_confidence)
  /\ HasLabel(sc_in[1], W_category)
  /\ sc_out = <<{}>>
  /\ predictions = <<>>

\* What the comment read says about confidence: the line that holds the
\* CONFIDENCE label, from the label on, and the first integer found on it.
ConfidenceLine(content) ==
  LET i == MinOf({j \in DOMAIN content : At(content, j, W_confidence)})
  IN  SubSeq(content, i, LineEnd(content, i))
FirstInteger(line) ==
  LET i == MinOf({j \in DOMAIN line : IsDigit(line[j])})
  IN  parseInt(SubSeq(line, i, SkipDigits(line, i) - 1))
ExpectedConfidence(content) ==
  IF ~HasLabel(content, W_confidence) THEN 5
  ELSE Min(10, Max(1, FirstInteger(ConfidenceLine(content))))

\* C24: the confidence of an extracted forecast is an integer in 1..10: the
\* first integer found on the CONFIDENCE line clamped to [1,10] when the line
\* is present, 5 when it is absent; the forecast ingestion stores has it.
C24_ConfidenceFromLine ==
  (Parsed /\ sc_out[1] # {})
    => /\ \A x \in sc_out[1] :
            /\ x.confidence \in 1..10
            /\ x.confidence = ExpectedConfidence(sc_in[1])
       /\ \A i \in DOMAIN predictions : predictions[i].confidence \in 1..10

\* The value of the CATEGORY line of the comment read: the rest of the line
\* after the label, trimmed and in lower case.
CategoryValue(content) ==
  LET i == MinOf({j \in DOMAIN content : At(content, j, W_category)})
  IN  toLowerCase(trim(SubSeq(content, i + Len(W_category), LineEnd(content, i))))
IsCategory(value) == \E c \in DOMAIN Categories : Categories[c] = value
ExpectedCategory(content) ==
  IF HasLabel(content, W_category) /\ IsCategory(CategoryValue(content))
  THEN CategoryValue(content)
  ELSE Categories[6]

\* C25: the category of an extracted forecast is one of tech, crypto, ai,
\* world, science, other: the value of the CATEGORY line when it is exactly
\* one of these in any case, and other when the line is absent or holds any
\* other value, a value that only starts with a member included.
C25_CategoryExactOrOther ==
  (Parsed /\ sc_out[1] # {})
    => \A x \in sc_out[1] :
          /\ IsCategory(x.category)
          /\ x.category = ExpectedCategory(sc_in[1])

\* C26: the deadline patterns are tried in the order within, end of, by, and
\* the first that parses wins: a claim text with both a "within N days"
\* clause and a "by <Month Year>" clause gets the deadline of the within
\* clause, a time relative to now.
C26_WithinBeforeBy ==
  (Parsed /\ sc_out[1] # {})
    => \A x \in sc_out[1] :
          (withinAmount(x.prediction) # {} /\ byMonthYear(x.prediction) # {})
            => /\ x.deadline # {}
               /\ \A d \in x.deadline : d.kind = "now plus"

\* The days a within clause of days or weeks names; {} for any other text.
WithinDays(text) ==
  { parseInt(SubSeq(cap, 1, SkipDigits(cap, 1) - 1))
      * (IF At(cap, SkipSpace(cap, SkipDigits(cap, 1)), <<"w","e","e","k">>) THEN 7 ELSE 1) :
    cap \in { c \in withinAmount(text) :
                \/ At(c, SkipSpace(c, SkipDigits(c, 1)), <<"d","a","y">>)
                \/ At(c, SkipSpace(c, SkipDigits(c, 1)), <<"w","e","e","k">>) } }

\* C27: a claim text with the clause "within N days" is extracted with the
\* deadline now plus N days, with "within N weeks" now plus 7 * N days; the
\* deadline is not left unset.  Stated for texts whose only deadline clause is
\* the within clause.
C27_WithinDaysFromNow ==
  (Parsed /\ sc_out[1] # {})
    => \A x \in sc_out[1] :
          \A n \in WithinDays(x.prediction) :
             (/\ byMonthYear(x.prediction) = {}
              /\ byNumericDate(x.prediction) = {}
              /\ byEndOf(x.prediction) = {})
               => x.deadline = {[kind |-> "now plus", days |-> n, months |-> 0, years |-> 0]}

\* The claim text of the comment read has no deadline clause, or one that
\* cannot be parsed: none of the patterns matches it, or none of the captures
\* is a date parseDateString can read.
NoReadableDeadline(text) ==
  \A cap \in byMonthYear(text) \cup byNumericDate(text) \cup byEndOf(text)
               \cup withinAmount(text) :
     parseDateString(cap) = {}

\* C28: a deadline clause that is missing or cannot be parsed never discards
\* the forecast: a comment with a claim text is extracted with the claim text,
\* the outcome fragment, the confidence and the category filled in, with the
\* deadline unset when no clause can be read, and the forecast is stored.
C28_DeadlineNeverDiscards ==
  (Parsed /\ predictionMatch(sc_in[1]) # {})
    => /\ sc_out[1] # {}
       /\ last = "ok"
       /\ Len(predictions) = 1
       /\ \A x \in sc_out[1] :
            /\ x.prediction = trim(CHOOSE t \in predictionMatch(sc_in[1]) : TRUE)
            /\ x.prediction # <<>>
            /\ x.outcome # <<>>
            /\ x.confidence \in 1..10
            /\ IsCategory(x.category)
            /\ NoReadableDeadline(x.prediction) => x.deadline = {}
            /\ predictions[1].prediction_text = Text(x.prediction)
            /\ predictions[1].outcome_predicted = {Text(x.outcome)}

\* A comment whose claim text ends in "by 13/45/2026", which matches a pattern
\* and is no date, has been read and stored with the deadline unset.
C28_Witness ==
  /\ Parsed
  /\ includes(sc_in[1], Chars("by 13/45/2026"))
  /\ byNumericDate(Chars("BTC will moon by 13/45/2026")) # {}
  /\ \E x \in sc_out[1] : x.deadline = {} /\ x.outcome = Chars("moon")
  /\ Len(predictions) = 1

\* C29: an agent row is created by the ingestion of a forecast of a new
\* username, with all counters 0; no step deletes an agent; and a step changes
\* the counters of an existing agent only by settling one of its pending
\* forecasts: ingesting comments, creating a topic and marking a topic
\* resolved leave every agent row as it was.
C29_AgentsChangeOnlyBySettlement ==
  [][ /\ DOMAIN agents \subseteq DOMAIN agents'
      /\ \A n \in DOMAIN agents' \ DOMAIN agents :
            /\ agents'[n].total_predictions = 0
            /\ agents'[n].correct_predictions = 0
            /\ agents'[n].current_streak = 0
            /\ agents'[n].best_streak = 0
            /\ agents'[n].total_ort_earned = 0
            /\ \E k \in DOMAIN predictions' \ DOMAIN predictions :
                  predictions'[k].agent_id = n /\ predictions'[k].status = "pending"
            /\ \A k \in DOMAIN predictions : predictions[k].agent_id # n
      /\ \A n \in DOMAIN agents :
            agents'[n] # agents[n]
              => \E p \in DOMAIN predictions, st \in Settled :
                    predictions[p].agent_id = n /\ Settles(p, st)
    ]_vars

\* An agent with a settled correct forecast has a later forecast ingested,
\* still pending, and keeps its counters.
C29_Witness ==
  \E n \in DOMAIN agents, p, q \in DOMAIN predictions :
     /\ p < q
     /\ predictions[p].agent_id = n /\ predictions[p].status = "resolved_correct"
     /\ predictions[q].agent_id = n /\ predictions[q].status = "pending"
     /\ agents[n].correct_predictions = 1
     /\ agents[n].current_streak = 1
     /\ topics # <<>> /\ ~topics[1].resolved

\* C30: generateDailyTopics(n) returns exactly n topics, 3 when n is omitted;
\* the categories of the topics are pairwise distinct when n is at most the
\* number of template categories, and a category repeats only after all the
\* categories have been used.
C30_DailyTopicsVariety ==
  (sc_out # <<>>)
    => LET n == IF sc_in = <<>> THEN 3 ELSE sc_in[1]
           result == sc_out[1]
       IN  /\ Len(result) = n
           /\ n <= Len(topicCategories)
                => \A i, j \in DOMAIN result :
                      i # j => result[i].category # result[j].category
           /\ \A i, j \in DOMAIN result :
                 (i < j /\ result[i].category = result[j].category)
                   => Range(topicCategories) \subseteq
                        {result[k].category : k \in 1..(j - 1)}

\* Six topics were asked for and the sixth repeats the category of the first.
C30_Witness ==
  /\ sc_in = <<6>>
  /\ sc_out # <<>>
  /\ Len(sc_out[1]) = 6
  /\ sc_out[1][6].category = sc_out[1][1].category
  /\ Cardinality({sc_out[1][k].category : k \in 1..5}) = 5

\* The indices of seq at which keep holds, as filter would leave them: sub is
\* a sub-list of seq in the same order when one strictly increasing choice of
\* indices of seq spells it.
IsSubList(sub, seq) ==
  \E f \in [DOMAIN sub -> DOMAIN seq] :
     /\ \A i, j \in DOMAIN sub : i < j => f[i] < f[j]
     /\ \A i \in DOMAIN sub : sub[i] = seq[f[i]]
Count(seq, x) == Cardinality({i \in DOMAIN seq : seq[i] = x})

\* C31: filterSuitableMarkets returns a sub-list of its input in the same
\* order, with no closed market, no resolved market and no market whose
\* liquidity is below minLiquidity (10000 when omitted), and keeps every open,
\* unresolved market with enough liquidity, two outcomes or more, a question
\* of 10 characters or more and an end date from 7 days to 6 months ahead.
C31_SuitableMarkets ==
  (sc_out # <<>>)
    => LET markets == sc_in[1]
           minLiquidity == IF Len(sc_in) = 1 THEN 10000 ELSE sc_in[2]
           result == sc_out[1]
       IN  /\ IsSubList(result, markets)
           /\ \A i \in DOMAIN result :
                 /\ ~result[i].closed
                 /\ ~result[i].resolved
                 /\ result[i].liquidity >= minLiquidity
           /\ \A i \in DOMAIN markets :
                 (/\ ~markets[i].closed
                  /\ ~markets[i].resolved
                  /\ markets[i].liquidity >= minLiquidity
                  /\ Len(markets[i].outcomes) >= 2
                  /\ Len(Chars(markets[i].question)) >= 10
                  /\ \E d \in markets[i].endDate : d >= 7 /\ d <= 184)
                   => Count(result, markets[i]) = Count(markets, markets[i])

\* Of a resolved market followed by the market of the tests, with the default
\* liquidity, only the second is returned.
C31_Witness ==
  /\ sc_out # <<>>
  /\ Len(sc_in) = 1
  /\ Len(sc_in[1]) = 2
  /\ sc_in[1][1].resolved /\ ~sc_in[1][1].closed
  /\ sc_in[1][2] = baseMarket
  /\ sc_out[1] = <<baseMarket>>

\* C32: in every reachable state of the record store every agent has
\* best streak >= current streak >= 0, and no step lowers a best streak.
C32_BestStreakBounds ==
  /\ [](\A n \in DOMAIN agents :
          /\ agents[n].current_streak >= 0
          /\ agents[n].best_streak >= agents[n].current_streak)
  /\ [][\A n \in DOMAIN agents :
          n \in DOMAIN agents' /\ agents'[n].best_streak >= agents[n].best_streak]_vars

\* An agent whose streak was broken: one forecast settled as correct, one as
\* incorrect, best streak 1 and current streak 0.
C32_Witness ==
  \E n \in DOMAIN agents, p, q \in DOMAIN predictions :
     /\ predictions[p].agent_id = n /\ predictions[p].status = "resolved_correct"
     /\ predictions[q].agent_id = n /\ predictions[q].status = "resolved_wrong"
     /\ agents[n].best_streak = 1
     /\ agents[n].current_streak = 0

\* The settled forecasts of agent n.
SettledOf(n) ==
  {p \in DOMAIN predictions :
     predictions[p].agent_id = n /\ predictions[p].status \in Settled}

\* C33: in every reachable state every agent has correct-count <= total-count
\* and a total-count equal to the number of its settled forecasts, so that an
\* agent with a settled forecast has total-count > 0, as the leaderboard query
\* requires of the agents it lists.
C33_TotalCountsSettled ==
  \A n \in DOMAIN agents :
     /\ agents[n].correct_predictions <= agents[n].total_predictions
     /\ agents[n].total_predictions = Cardinality(SettledOf(n))
     /\ SettledOf(n) # {} => agents[n].total_predictions > 0

\* C34: over any sequence of ingestion runs and settlements each comment
\* yields at most one forecast: no two forecasts come from the same comment,
\* also after a forecast was settled on its own while its topic is open.
C34_OneForecastPerComment ==
  \A p, q \in DOMAIN predictions :
     predictions[p].comment_id = predictions[q].comment_id => p = q

\* C35: no forecast is created for a topic that is already resolved: a step
\* that stores a new forecast binds it to a topic that is not resolved,
\* whatever the interleaving of the ingestion run with resolveTopic.
C35_NoForecastOnResolvedTopic ==
  [][\A k \in DOMAIN predictions' \ DOMAIN predictions :
        ~topics[predictions'[k].topic_id].resolved]_vars

\* C36: of two resolveTopic calls on the same open topic that overlap, the one
\* that runs first marks the topic and the other, started while the first is
\* suspended in its loop, ends with the already-resolved error and changes
\* nothing; the outcome of the topic is the one the first call was given, and
\* a forecast that is settled is not settled again.
C36_OverlappingResolveTopic ==
  /\ [](\A t \in DOMAIN batch :
          batch[t].active =>
            /\ t \in DOMAIN topics
            /\ topics[t].resolved
            /\ topics[t].actual_outcome = {batch[t].actualOutcome})
  /\ [][/\ \A t \in 1..MaxTopics, o \in ActualOutcomes, m \in MatchingOutcomes :
             (batch[t].active /\ ResolveTopic(t, o, m)) =>
               /\ last' = "Topic already resolved"
               /\ UNCHANGED <<topics, predictions, agents, batch, paid>>
        /\ \A p \in DOMAIN predictions :
             predictions[p].status \in Settled =>
               (p \in DOMAIN predictions' /\ predictions'[p] = predictions[p])]_vars

\* A second call has failed while the first, given the outcome No, is
\* suspended with a forecast still to settle.
C36_Witness ==
  \E t \in DOMAIN batch :
     /\ batch[t].active
     /\ batch[t].queue # <<>>
     /\ batch[t].actualOutcome = "No"
     /\ topics[t].actual_outcome = {"No"}
     /\ last = "Topic already resolved"

ResolvedEvents(id) ==
  {i \in DOMAIN calls : calls[i].event = "PredictionResolved" /\ calls[i].predictionId = id}

\* A prediction id is unknown when nothing was ever stored under it.
UnknownId(id) == predictions[id] = ZeroPrediction

C38_ResolvedIdReverts ==
  \A owner \in BOOLEAN, id \in PredictionIds, correct \in BOOLEAN, minter \in BOOLEAN :
     (ChainResolvePrediction(owner, id, correct, minter)
        /\ (predictions[id].resolved \/ UnknownId(id)))
       => /\ last' # "ok"
          /\ UNCHANGED <<predictions, agents, paid, calls>>

C38_IncorrectResetsStreak ==
  \A owner \in BOOLEAN, id \in PredictionIds, minter \in BOOLEAN :
     (ChainResolvePrediction(owner, id, FALSE, minter) /\ last' = "ok")
       => agents'[predictions[id].agentId].currentStreak = 0

C38_StatsInvariant ==
  \A a \in ChainAgentIds :
     /\ agents[a].correctPredictions <= agents[a].totalPredictions
     /\ agents[a].bestStreak >= agents[a].currentStreak

C38_AtMostOneResolution ==
  \A id \in PredictionIds : Cardinality(ResolvedEvents(id)) <= 1

\* C38: in the on-chain registry a prediction is resolved at most once (no
\* prediction id has two PredictionResolved events); resolvePrediction on a
\* resolved or unknown id reverts and leaves the prediction, the stats, the
\* balances and the events as they were; an incorrect resolution sets the
\* agent's streak to 0; and in every state correctPredictions <=
\* totalPredictions and bestStreak >= currentStreak for every agent.
C38_ResolvedAtMostOnce ==
  /\ [](C38_AtMostOneResolution /\ C38_StatsInvariant)
  /\ [][C38_ResolvedIdReverts /\ C38_IncorrectResetsStreak]_vars

\* The part of C38 about a single call, and the two inequalities.
C38_SingleCall ==
  /\ []C38_StatsInvariant
  /\ [][C38_ResolvedIdReverts /\ C38_IncorrectResetsStreak]_vars

\* A call on a resolved prediction has reverted.
C38_RevertReached == last = "Already resolved"

\* A resolved prediction of a streak past the cap.
C39_PastCap(i) ==
  /\ calls[i].event = "PredictionResolved"
  /\ calls[i].correct
  /\ agents[calls[i].agentId].currentStreak > MAX_STREAK_BONUS - 10
  /\ predictions[calls[i].predictionId].resolved
  /\ predictions[calls[i].predictionId].reward = calls[i].reward

\* C39: for every confidence 1..10 and every streak before the settlement, the
\* reward resolvePrediction stores for a correct prediction is
\* calculateReward(confidence, streak).totalReward, both in hundredths of a
\* token (10^16 wei), below, at and beyond the cap of the streak bonus.  A
\* correct resolution is the step that emits PredictionResolved with correct.
C39_RewardsAgree ==
  [][(Len(calls') > Len(calls)
        /\ calls'[Len(calls')].event = "PredictionResolved"
        /\ calls'[Len(calls')].correct)
       => LET id == calls'[Len(calls')].predictionId
              pred == predictions[id]
              stats == agents[pred.agentId]
          IN  /\ pred.confidence \in 1..10
              /\ predictions'[id].reward =
                   calculateReward(pred.confidence, stats.currentStreak).totalReward
              /\ calls'[Len(calls')].reward = predictions'[id].reward
              /\ agents'[pred.agentId].totalRewardsEarned =
                   stats.totalRewardsEarned + predictions'[id].reward]_vars

\* A correct prediction was resolved at a streak beyond the cap and paid the
\* capped reward.
C39_Witness ==
  \E i \in DOMAIN calls :
     /\ C39_PastCap(i)
     /\ calls[i].reward = 2 * BaseReward * (MaxStreakBonus * 10)
                            * predictions[calls[i].predictionId].confidence

\* Rewards below the cap and at the cap were paid as well.
C39_BelowCapReached ==
  \E i \in DOMAIN calls :
     /\ calls[i].event = "PredictionResolved"
     /\ calls[i].correct
     /\ agents[calls[i].agentId].currentStreak = 1
     /\ calls[i].reward = 2 * BaseReward * 11 * 10

====
